---- MODULE Spec2Model ----
(***************************************************************************)
(* Staging import protocol of job-dashboard: the /api/email-sync route     *)
(* (pre-classified POST, server-local POST, PATCH corrections), the        *)
(* reviewer actions on EmailImport rows, the notmuch tag store, the local  *)
(* sync script and the correction scanner.                                 *)
(*                                                                         *)
(* Confidence values are percentages (0.6 is 60).  A messageId is a pair   *)
(* <<base, form>>: form "angle" is the id enclosed in <...> as mailparser  *)
(* returns it, form "bare" is the id as notmuch knows it.                  *)
(***************************************************************************)
EXTENDS Integers, Sequences, FiniteSets, TLC

\* ------------------------------------------------------------------ bounds
MaxBatch == 2
MaxIds == 2
MaxJobs == 1
MaxPool == 1
MaxWorkers == 2
MaxUrls == 2
MaxCalls == 2

\* --------------------------------------------------------------- constants
CONFIDENCE_THRESHOLD == 60
FAILED_CONFIDENCE == 0
PROMOTION_CONFIDENCE == 100
RULE_CONFIDENCE == 95
DEFAULT_CONFIDENCE == 50
MAX_HIGH_VARIANCE_CORRECTIONS == 50

CLASSIFICATION_TYPES ==
  {"job_application", "job_response", "interview", "rejection", "offer",
   "follow_up", "other"}

\* the same types in the order of the array
ClassificationOrder ==
  <<"job_application", "job_response", "interview", "rejection", "offer",
    "follow_up", "other">>

MONITORED_EMAILS == {"j@abaj.ai", "aayushbajaj7@gmail.com"}

\* Methods exported by src/app/api/email-sync/route.ts
RouteMethods == {"POST", "PATCH", "GET"}

\* ------------------------------------------------------------ input domains
MsgBases == {1, 2}
Forms == {"bare", "angle"}
MessageIds == MsgBases \X Forms
CorrTypes == {"interview", "rejection"}
Reqs == {1, 2}

\* the request slot used by the local scripts
ClientSlot == 1

\* Message-ID header of each message of the mail store as mailparser returns it
HeaderForm == (1 :> "angle") @@ (2 :> "bare")

TypeConf(t, c) == [type |-> t, confidence |-> c]

\* classification/confidence pairs a producer or the model may deliver
InPairs == {TypeConf("interview", 60), TypeConf("interview", 59), TypeConf("other", 60)}

ImportInputs ==
  {[mid |-> m, classification |-> p.type, confidence |-> p.confidence,
    extractedData |-> "posted"] :
     m \in MessageIds, p \in InPairs}

CorrectionInputs ==
  [mid : MessageIds, originalType : CorrTypes, correctedType : CorrTypes]

NoImport ==
  [mid |-> <<0, "bare">>, classification |-> "", confidence |-> 0, extractedData |-> ""]
NoCorrection == [mid |-> <<0, "bare">>, originalType |-> "", correctedType |-> ""]

VARIABLES
  store,      \* EmailImport table: set of rows
  nextId,     \* next primary key of EmailImport
  accounts,   \* EmailAccount table: emails having an active account
  nextJob,    \* next primary key of Job
  tags,       \* notmuch tag store, per message base
  req,        \* in-flight requests of the /api/email-sync route
  client,     \* the running local script (sync or correction scan)
  corrections, \* ~/.jobsync/corrections.json: the few-shot correction list
  mail,       \* content of each message, as far as the rule engine reads it
  prompt,     \* few-shot part of the last prompt built for the LLM
  extracted,  \* the arguments and the result of the last metadata merge
  API_KEY,    \* process.env.EMAIL_SYNC_API_KEY of the server
  pool,       \* runWithConcurrency: the shared index, the workers, the results
  ruleResult, \* the last value returned by classifyByRules
  extraction, \* the email given to extractByRules and the value it returned
  calls       \* approveEmailImport invocations: where each one is, what it returned

vars ==
  <<store, nextId, accounts, nextJob, tags, req, client, corrections, mail,
    prompt, extracted, API_KEY, pool, ruleResult, extraction, calls>>

\* ------------------------------------------------------------ pure helpers

\* messageId.replace(/^<|>$/g, "")
StripBrackets(mid) == <<mid[1], "bare">>

\* `<${cleanMessageId}>`
WrapBrackets(mid) == <<mid[1], "angle">>

isJobRelated(c) == c.type # "other"

meetsConfidenceThreshold(c) == c.confidence >= CONFIDENCE_THRESHOLD

FindUniqueMisses(mid) == {}

\* prisma.emailImport.findUnique({ where: { messageId } })
FindUnique(mid) == {row \in store : row.messageId = mid}

FindExactOnly(mid) == {row \in store : row.messageId = mid}

\* PATCH: findFirst with OR over the clean, the wrapped and the given id
FindForCorrection(mid) ==
  {row \in store :
     row.messageId \in {StripBrackets(mid), WrapBrackets(StripBrackets(mid)), mid}}

UniqueIndexOff(mid) == TRUE

\* the unique index EmailImport_messageId_key
UniqueIndexAllows(mid) == \A row \in store : row.messageId # mid

\* the addresses of each message: the first was received at one monitored
\* address, the second was sent from the other one
Headers ==
  [b \in MsgBases |->
     IF b = 1
       THEN [fromEmail |-> "recruiter@example.com", toEmail |-> "j@abaj.ai",
             isOutbound |-> FALSE]
       ELSE [fromEmail |-> "aayushbajaj7@gmail.com", toEmail |-> "recruiter@example.com",
             isOutbound |-> TRUE]]

\* const accountEmail = imp.isOutbound ? imp.fromEmail : imp.toEmail
accountEmail(mid) ==
  IF Headers[mid[1]].isOutbound THEN Headers[mid[1]].fromEmail ELSE Headers[mid[1]].toEmail

\* prisma.emailAccount.findFirst({ where: { email: { in: MONITORED_EMAILS },
\* isActive: true } }): the rows the query may return. It has no orderBy, so
\* which of several matching accounts comes first is up to the database.
FindFirstAccount(mid) == accounts \cap MONITORED_EMAILS

\* the data of prisma.emailImport.create; jobId 0 is NULL
NewRow(id, imp, account) ==
  [id |-> id, messageId |-> imp.mid, classification |-> imp.classification,
   confidence |-> imp.confidence, extractedData |-> imp.extractedData,
   status |-> "pending", jobId |-> 0, emailAccountId |-> account]

UpdateResetsStatus(rowId, t) ==
  {IF row.id = rowId THEN [row EXCEPT !.classification = t, !.status = "pending"]
   ELSE row : row \in store}

\* prisma.emailImport.update({ where: { id }, data: { classification } })
UpdateClassification(rowId, t) ==
  {IF row.id = rowId THEN [row EXCEPT !.classification = t] ELSE row :
     row \in store}

\* notmuch addresses a message by its bare id; an id still enclosed in
\* angle brackets matches no message and the tag command changes nothing
NotmuchKnows(mid) == mid[2] = "bare" /\ mid[1] \in MsgBases

IdleReq ==
  [pc |-> "idle", kind |-> "none", n |-> 0, idx |-> 0,
   batch |-> <<>>, imp |-> NoImport, cor |-> NoCorrection, row |-> 0,
   processed |-> 0, skipped |-> 0, errors |-> <<>>,
   updated |-> 0, notFound |-> 0, http |-> 0]

\* end of one loop iteration: the next entry, or the summary response
Advance(q, loopPc) ==
  [q EXCEPT !.idx = @ + 1,
            !.pc = IF q.idx + 1 >= q.n THEN "done" ELSE loopPc]

CatchEntryUncounted(q, reason, loopPc) == Advance(q, loopPc)

CatchEntryRethrows(q, reason, loopPc) ==
  [q EXCEPT !.pc = "failed", !.http = 500]

\* the catch block of a loop body: push the error string, go on with the loop
CatchEntry(q, reason, loopPc) ==
  Advance([q EXCEPT !.errors = Append(@, reason)], loopPc)

CheckOrderInterviewFirst ==
  <<"interview", "other", "rejection", "job_response", "follow_up">>

\* the order in which classifyByRules visits the types
CheckOrder == <<"other", "interview", "rejection", "job_response", "follow_up">>

\* CLASSIFICATION_RULES in brief: per type the rules in table order, some with
\* a condition besides the pattern
RuleTable ==
  [other |-> <<[id |-> "o1", conditional |-> TRUE], [id |-> "o2", conditional |-> FALSE]>>,
   interview |-> <<[id |-> "i1", conditional |-> FALSE]>>,
   rejection |-> <<[id |-> "r1", conditional |-> FALSE]>>,
   job_response |-> <<[id |-> "j1", conditional |-> TRUE]>>,
   follow_up |-> <<[id |-> "f1", conditional |-> FALSE]>>]

RuleIds == {"o1", "o2", "i1", "r1", "j1", "f1"}

ConditionalRuleIds == {"o1", "j1"}

\* what a message is to the rule engine: the rules whose pattern matches the
\* rule's field, and the rules whose condition holds for the message
MailContents == [pattern : SUBSET RuleIds, condition : SUBSET ConditionalRuleIds]

\* the messages of the mail store: message 1 matches no rule and needs the
\* model, message 2 matches a rejection rule
StoredMail ==
  (1 :> [pattern |-> {}, condition |-> {}])
    @@ (2 :> [pattern |-> {"r1"}, condition |-> {}])

\* tags of a message just indexed by notmuch: new, no jobsync tag at all.
\* cls is the jobsync/<type> tag, was the jobsync-was/<type> tag ("none" when
\* absent), corrected the jobsync-corrected tag
\* default of buildFewShotExamples' maxExamples
MAX_EXAMPLES == 5

\* no prompt has been built yet
NoPrompt == [built |-> FALSE, section |-> FALSE, examples |-> <<>>]

\* fields of the extracted metadata, and the values a field can hold: a
\* missing key, null, the empty string, or a name
ExtractedFields == {"company", "jobTitle"}
FieldValues == {"undefined", "null", "", "Acme", "Other"}
ExtractedData == [ExtractedFields -> FieldValues]

\* JavaScript truthiness of a field value
Truthy(v) == v \notin {"undefined", "null", ""}

NoExtraction ==
  [existing |-> [k \in ExtractedFields |-> "undefined"],
   newData |-> [k \in ExtractedFields |-> "undefined"],
   result |-> [k \in ExtractedFields |-> "undefined"],
   returned |-> FALSE]

\* EMAIL_SYNC_API_KEY as the local scripts send it in x-api-key
ClientKey == "secret"

\* values of the server's EMAIL_SYNC_API_KEY: not set, or the secret
ConfiguredKeys == {"unset", ClientKey}

\* values of a request's x-api-key header: no header, another key, the secret
HeaderKeys == {"missing", "wrong", ClientKey}

\* no batch is being processed
IdlePool ==
  [index |-> 0, results |-> <<>>, completed |-> 0, finished |-> <<>>,
   worker |-> <<>>]

\* classifyByRules has not been called
NoRuleResult ==
  [called |-> FALSE, b |-> 0, type |-> "none", confidence |-> 0, reason |-> "none"]

\* the invocations of approveEmailImport that may run at the same time
Callers == 1..MaxCalls

\* approveEmailImport has not been invoked
IdleCall == [pc |-> "idle", importId |-> 0, result |-> "none", job |-> 0]

NoCalls == [c \in Callers |-> IdleCall]

\* extractByRules has not been called
NoExtractionCall ==
  [from |-> "", fromName |-> <<>>, text |-> <<>>, urls |-> <<>>, called |-> FALSE,
   source |-> "null", company |-> <<>>, jobTitle |-> <<>>, applicationUrl |-> 0]

NewMessageTags ==
  [new |-> TRUE, processed |-> FALSE, cls |-> "none", was |-> "none",
   corrected |-> FALSE]

\* locals of a script run that has not started
IdleClient ==
  [pc |-> "idle", kind |-> "none", batch |-> <<>>, idx |-> 0,
   toSend |-> <<>>, newImportsList |-> <<>>, correctionsList |-> <<>>, deleteList |-> <<>>,
   skipped |-> 0, failed |-> 0, newCorrections |-> 0,
   deleted |-> 0, notFound |-> 0]

TypeOK ==
  /\ nextId \in 1..(MaxIds + MaxBatch + 1)
  /\ nextJob \in 1..(MaxJobs + MaxCalls + 1)
  /\ accounts \subseteq MONITORED_EMAILS
  /\ \A row \in store : row.id \in 1..(MaxIds + MaxBatch) /\ row.status \in {"pending", "approved", "rejected", "skipped"}

Init ==
  /\ store = {}
  /\ nextId = 1
  /\ accounts = {}
  /\ nextJob = 1
  /\ tags = [b \in MsgBases |-> NewMessageTags]
  /\ req = [r \in Reqs |-> IdleReq]
  /\ client = IdleClient
  /\ corrections = <<>>
  /\ mail = StoredMail
  /\ prompt = NoPrompt
  /\ extracted = NoExtraction
  /\ API_KEY = ClientKey
  /\ pool = IdlePool
  /\ ruleResult = NoRuleResult
  /\ extraction = NoExtractionCall
  /\ calls = NoCalls

\* ----------------------------------------------- POST, pre-classified mode

\* POST with a non-empty imports array of n entries (lines 61-143).
\* `touched` are the monitored addresses among the batch's fromEmail/toEmail
\* values; their account upserts run before, and outside, the per-entry
\* try/catch, so a failing upsert is answered with status 500.
StartPost(r, n, touched, dbFails) ==
  /\ req[r].pc = "idle"
  /\ nextId + n - 1 <= MaxIds
  /\ IF dbFails /\ touched # {}
       THEN /\ req' = [req EXCEPT ![r] = [IdleReq EXCEPT !.pc = "failed", !.kind = "pre",
                                                          !.n = n, !.http = 500]]
            /\ UNCHANGED accounts
       ELSE /\ accounts' = accounts \cup touched
            /\ req' = [req EXCEPT ![r] = [IdleReq EXCEPT !.pc = "lookup", !.kind = "pre",
                                                          !.n = n]]
  /\ UNCHANGED <<calls, pool, ruleResult, extraction, API_KEY, extracted, prompt, mail, client, corrections, store, nextId, nextJob, tags>>

\* lines 145-155: findUnique and the duplicate check for the next entry
PostLookup(r, imp, dbFails) ==
  /\ req[r].pc = "lookup"
  /\ req[r].kind = "pre"
  /\ LET q == [req[r] EXCEPT !.imp = imp] IN
     IF dbFails
       THEN req' = [req EXCEPT ![r] = CatchEntry(q, "db", "lookup")]
       ELSE IF FindUnique(imp.mid) # {}
         THEN req' = [req EXCEPT ![r] = Advance([q EXCEPT !.skipped = @ + 1], "lookup")]
         ELSE req' = [req EXCEPT ![r] = [q EXCEPT !.pc = "insert"]]
  /\ UNCHANGED <<calls, pool, ruleResult, extraction, API_KEY, extracted, prompt, mail, client, corrections, store, nextId, accounts, nextJob, tags>>

\* lines 157-199: account lookup, create, and the catch of the entry
PostInsert(r, dbFails) ==
  /\ req[r].pc = "insert"
  /\ req[r].kind = "pre"
  /\ LET imp == req[r].imp IN
     IF dbFails
       THEN /\ req' = [req EXCEPT ![r] = CatchEntry(@, "db", "lookup")]
            /\ UNCHANGED <<store, nextId>>
       ELSE IF FindFirstAccount(imp.mid) = {}
         THEN /\ req' = [req EXCEPT ![r] =
                   Advance([@ EXCEPT !.errors = Append(@, "no-account")], "lookup")]
              /\ UNCHANGED <<store, nextId>>
         ELSE IF ~UniqueIndexAllows(imp.mid)
           THEN /\ req' = [req EXCEPT ![r] = CatchEntry(@, "unique-constraint", "lookup")]
                /\ UNCHANGED <<store, nextId>>
           ELSE /\ \E account \in FindFirstAccount(imp.mid) :
                     store' = store \cup {NewRow(nextId, imp, account)}
                /\ nextId' = nextId + 1
                /\ req' = [req EXCEPT ![r] = Advance([@ EXCEPT !.processed = @ + 1], "lookup")]
  /\ UNCHANGED <<calls, pool, ruleResult, extraction, API_KEY, extracted, prompt, mail, client, corrections, accounts, nextJob, tags>>

\* ------------------------------------------------ POST, server-local mode

\* notmuch: tag:new AND ... AND NOT tag:jobsync-processed (buildEmailQuery)
ServerQueryMatches(b) == tags[b].new /\ ~tags[b].processed

\* the messages selected by queryNewEmails, in the order of the mail store
RECURSIVE SelectedFrom(_, _)
SelectedFrom(b, last) ==
  IF b > last THEN <<>>
  ELSE (IF ServerQueryMatches(b) THEN <<b>> ELSE <<>>) \o SelectedFrom(b + 1, last)

queryNewEmails == SelectedFrom(1, Cardinality(MsgBases))

\* parseEmailFile: the messageId is the Message-ID header as mailparser gives it
ParsedMessageId(b) == <<b, HeaderForm[b]>>

\* notmuch.ts markEmailProcessed: notmuch tag -new +jobsync-processed -- id:<messageId>,
\* the id passed as parsed; a failing command is caught and logged
ServerMarkProcessed(mid) ==
  IF NotmuchKnows(mid)
    THEN [tags EXCEPT ![mid[1]].new = FALSE, ![mid[1]].processed = TRUE]
    ELSE tags

\* classifyEmail: the model's answer, or the default of the catch block
classifyEmail(llm) ==
  IF llm.type = "failed" THEN TypeConf("other", FAILED_CONFIDENCE) ELSE llm

\* handleLocalMode up to the loop (lines 213-252)
StartLocal(r, notmuchAvailable, dbFails) ==
  /\ req[r].pc = "idle"
  /\ nextId + Len(queryNewEmails) - 1 <= MaxIds
  /\ IF ~notmuchAvailable \/ dbFails
       THEN /\ req' = [req EXCEPT ![r] = [IdleReq EXCEPT !.pc = "failed", !.kind = "local",
                                                          !.http = 500]]
            /\ UNCHANGED accounts
       ELSE /\ accounts' = accounts \cup MONITORED_EMAILS
            /\ req' = [req EXCEPT ![r] =
                 [IdleReq EXCEPT !.pc = IF queryNewEmails = <<>> THEN "done" ELSE "lookup",
                                 !.kind = "local",
                                 !.n = Len(queryNewEmails),
                                 !.batch = queryNewEmails]]
  /\ UNCHANGED <<calls, pool, ruleResult, extraction, API_KEY, extracted, prompt, mail, client, corrections, store, nextId, nextJob, tags>>

\* lines 255-268: parse, findUnique, duplicate check
LocalLookup(r, parseFails, dbFails) ==
  /\ req[r].pc = "lookup"
  /\ req[r].kind = "local"
  /\ LET mid == ParsedMessageId(req[r].batch[req[r].idx + 1])
         q == [req[r] EXCEPT !.imp = [NoImport EXCEPT !.mid = mid]]
     IN
     IF parseFails \/ dbFails
       THEN req' = [req EXCEPT ![r] =
                      CatchEntry(q, IF parseFails THEN "parse" ELSE "db", "lookup")]
       ELSE IF FindUnique(mid) # {}
         THEN req' = [req EXCEPT ![r] = Advance([q EXCEPT !.skipped = @ + 1], "lookup")]
         ELSE req' = [req EXCEPT ![r] = [q EXCEPT !.pc = "classify"]]
  /\ UNCHANGED <<calls, pool, ruleResult, extraction, API_KEY, extracted, prompt, mail, client, corrections, store, nextId, accounts, nextJob, tags>>

\* lines 270-282: classify, then the policy check
LocalClassify(r, llm) ==
  /\ req[r].pc = "classify"
  /\ LET c == classifyEmail(llm)
         mid == req[r].imp.mid
     IN
     IF ~isJobRelated(c) \/ ~meetsConfidenceThreshold(c)
       THEN /\ tags' = ServerMarkProcessed(mid)
            /\ req' = [req EXCEPT ![r] =
                 Advance([@ EXCEPT !.skipped = @ + 1,
                                   !.imp = [mid |-> mid, classification |-> c.type,
                                            confidence |-> c.confidence,
                                            extractedData |-> "llm"]], "lookup")]
       ELSE /\ req' = [req EXCEPT ![r].imp = [mid |-> mid, classification |-> c.type,
                                              confidence |-> c.confidence,
                                              extractedData |-> "llm"],
                                  ![r].pc = "insert"]
            /\ UNCHANGED tags
  /\ UNCHANGED <<calls, pool, ruleResult, extraction, API_KEY, extracted, prompt, mail, client, corrections, store, nextId, accounts, nextJob>>

\* lines 284-327: account lookup, create, mark processed, catch
LocalInsert(r, dbFails) ==
  /\ req[r].pc = "insert"
  /\ req[r].kind = "local"
  /\ LET imp == req[r].imp IN
     IF dbFails
       THEN /\ req' = [req EXCEPT ![r] = CatchEntry(@, "db", "lookup")]
            /\ UNCHANGED <<store, nextId, tags>>
       ELSE IF FindFirstAccount(imp.mid) = {}
         THEN /\ req' = [req EXCEPT ![r] = Advance([@ EXCEPT !.skipped = @ + 1], "lookup")]
              /\ UNCHANGED <<store, nextId, tags>>
         ELSE IF ~UniqueIndexAllows(imp.mid)
           THEN /\ req' = [req EXCEPT ![r] = CatchEntry(@, "unique-constraint", "lookup")]
                /\ UNCHANGED <<store, nextId, tags>>
           ELSE /\ \E account \in FindFirstAccount(imp.mid) :
                     store' = store \cup {NewRow(nextId, imp, account)}
                /\ nextId' = nextId + 1
                /\ tags' = ServerMarkProcessed(imp.mid)
                /\ req' = [req EXCEPT ![r] = Advance([@ EXCEPT !.processed = @ + 1], "lookup")]
  /\ UNCHANGED <<calls, pool, ruleResult, extraction, API_KEY, extracted, prompt, mail, client, corrections, accounts, nextJob>>

\* --------------------------------------------------------------------- PATCH

\* lines 346-376: a corrections array of n entries
StartPatch(r, n) ==
  /\ req[r].pc = "idle"
  /\ req' = [req EXCEPT ![r] = [IdleReq EXCEPT !.pc = IF n = 0 THEN "done" ELSE "find",
                                               !.kind = "patch", !.n = n]]
  /\ UNCHANGED <<calls, pool, ruleResult, extraction, API_KEY, extracted, prompt, mail, client, corrections, store, nextId, accounts, nextJob, tags>>

\* lines 378-397: findFirst over the three spellings of the id
PatchFind(r, cor, rowId, dbFails) ==
  /\ req[r].pc = "find"
  /\ LET found == FindForCorrection(cor.mid)
         q == [req[r] EXCEPT !.cor = cor, !.row = rowId]
     IN
     /\ IF found = {} THEN rowId = 0 ELSE rowId \in {row.id : row \in found}
     /\ IF dbFails
          THEN req' = [req EXCEPT ![r] = CatchEntry([q EXCEPT !.row = 0], "db", "find")]
          ELSE IF found = {}
            THEN req' = [req EXCEPT ![r] = Advance([q EXCEPT !.notFound = @ + 1], "find")]
            ELSE req' = [req EXCEPT ![r] = [q EXCEPT !.pc = "update"]]
  /\ UNCHANGED <<calls, pool, ruleResult, extraction, API_KEY, extracted, prompt, mail, client, corrections, store, nextId, accounts, nextJob, tags>>

\* lines 399-416: update by primary key; a vanished row makes update throw
PatchUpdate(r, dbFails) ==
  /\ req[r].pc = "update"
  /\ IF dbFails \/ ~(\E row \in store : row.id = req[r].row)
       THEN /\ req' = [req EXCEPT ![r] =
                 CatchEntry(@, IF dbFails THEN "db" ELSE "record-not-found", "find")]
            /\ UNCHANGED store
       ELSE /\ store' = UpdateClassification(req[r].row, req[r].cor.correctedType)
            /\ req' = [req EXCEPT ![r] = Advance([@ EXCEPT !.updated = @ + 1], "find")]
  /\ UNCHANGED <<calls, pool, ruleResult, extraction, API_KEY, extracted, prompt, mail, client, corrections, nextId, accounts, nextJob, tags>>

\* the response has been returned; the slot is free for the next request
Respond(r) ==
  /\ req[r].pc \in {"done", "failed"}
  /\ req' = [req EXCEPT ![r] = IdleReq]
  /\ UNCHANGED <<calls, pool, ruleResult, extraction, API_KEY, extracted, prompt, mail, client, corrections, store, nextId, accounts, nextJob, tags>>

KeyCheckAcceptsMissing(header) ==
  IF API_KEY = "unset" THEN 500
  ELSE IF header # "missing" /\ header # API_KEY THEN 401
  ELSE 0

\* the key check at the head of POST and PATCH: the status of the early
\* return, or 0 when the handler goes on
KeyCheck(header) ==
  IF API_KEY = "unset" THEN 500
  ELSE IF header # API_KEY THEN 401
  ELSE 0

\* the early return of the key check
Unauthorized(r, header) ==
  /\ req[r].pc = "idle"
  /\ req' = [req EXCEPT ![r] = [IdleReq EXCEPT !.pc = "failed", !.kind = "rejected",
                                               !.http = KeyCheck(header)]]
  /\ UNCHANGED <<calls, pool, ruleResult, extraction, API_KEY, extracted, prompt, mail, client, corrections, store, nextId, accounts, nextJob, tags>>

\* POST with pre-classified imports, from the key check on
POST(r, header, n, touched, dbFails) ==
  IF KeyCheck(header) # 0
    THEN Unauthorized(r, header)
    ELSE StartPost(r, n, touched, dbFails)

\* PATCH, from the key check on
PATCH(r, header, n) ==
  IF KeyCheck(header) # 0
    THEN Unauthorized(r, header)
    ELSE StartPatch(r, n)

\* PATCH with a body that has no corrections array: 400, nothing is read or
\* written
PatchInvalidBody(r) ==
  /\ req[r].pc = "idle"
  /\ req' = [req EXCEPT ![r] = [IdleReq EXCEPT !.pc = "failed", !.kind = "patch",
                                               !.http = 400]]
  /\ UNCHANGED <<calls, pool, ruleResult, extraction, API_KEY, extracted, prompt, mail, client, corrections, store, nextId, accounts, nextJob, tags>>

\* updateEmailImport of the metadata backfill and updateExtractedData of the
\* SEEK backfill: PATCH { updates: [{ messageId, extractedData }] } with the
\* script's key, and the handling of that request by the route
updateExtractedData(r, mid) ==
  IF KeyCheck(ClientKey) # 0
    THEN Unauthorized(r, ClientKey)
    ELSE PatchInvalidBody(r)

\* DELETE /api/email-sync: the route exports no DELETE handler, the
\* framework answers 405
DELETE(r) ==
  /\ req[r].pc = "idle"
  /\ "DELETE" \notin RouteMethods
  /\ req' = [req EXCEPT ![r] = [IdleReq EXCEPT !.pc = "failed", !.kind = "delete",
                                               !.http = 405]]
  /\ UNCHANGED <<calls, pool, ruleResult, extraction, API_KEY, extracted, prompt, mail, client, corrections, store, nextId, accounts, nextJob, tags>>

\* ---------------------------------------------------------- reviewer actions

SetStatus(rowId, st) ==
  {IF row.id = rowId THEN [row EXCEPT !.status = st] ELSE row : row \in store}

approveEmailImport(rowId) ==
  /\ nextJob <= MaxJobs
  /\ \E row \in store :
       /\ row.id = rowId
       /\ row.status = "pending"
       /\ store' = (store \ {row}) \cup
            {[row EXCEPT !.status = "approved", !.jobId = nextJob]}
  /\ nextJob' = nextJob + 1
  /\ UNCHANGED <<calls, pool, ruleResult, extraction, API_KEY, extracted, prompt, mail, client, corrections, nextId, accounts, tags, req>>

rejectEmailImport(rowId) ==
  /\ \E row \in store : row.id = rowId
  /\ store' = SetStatus(rowId, "rejected")
  /\ UNCHANGED <<calls, pool, ruleResult, extraction, API_KEY, extracted, prompt, mail, client, corrections, nextId, accounts, nextJob, tags, req>>

skipEmailImport(rowId) ==
  /\ \E row \in store : row.id = rowId
  /\ store' = SetStatus(rowId, "skipped")
  /\ UNCHANGED <<calls, pool, ruleResult, extraction, API_KEY, extracted, prompt, mail, client, corrections, nextId, accounts, nextJob, tags, req>>

restoreToPending(rowId) ==
  /\ \E row \in store : row.id = rowId
  /\ store' = SetStatus(rowId, "pending")
  /\ UNCHANGED <<calls, pool, ruleResult, extraction, API_KEY, extracted, prompt, mail, client, corrections, nextId, accounts, nextJob, tags, req>>

\* updateMany({ where: { id in importIds, status: "pending" }, data: { status } })
SetStatusOfPending(rowIds, st) ==
  {IF row.id \in rowIds /\ row.status = "pending"
     THEN [row EXCEPT !.status = st] ELSE row : row \in store}

bulkRejectEmailImports(rowIds) ==
  /\ store' = SetStatusOfPending(rowIds, "rejected")
  /\ UNCHANGED <<calls, pool, ruleResult, extraction, API_KEY, extracted, prompt, mail, client, corrections, nextId, accounts, nextJob, tags, req>>

bulkSkipEmailImports(rowIds) ==
  /\ store' = SetStatusOfPending(rowIds, "skipped")
  /\ UNCHANGED <<calls, pool, ruleResult, extraction, API_KEY, extracted, prompt, mail, client, corrections, nextId, accounts, nextJob, tags, req>>

\* the import and the job must exist; the update is refused by the unique
\* index EmailImport_jobId_key when another import is linked to the job
linkToExistingJob(rowId, jobId) ==
  /\ jobId \in 1..(nextJob - 1)
  /\ \E row \in store :
       /\ row.id = rowId
       /\ \A other \in store : other.jobId = jobId => other.id = rowId
       /\ store' = (store \ {row}) \cup
            {[row EXCEPT !.status = "approved", !.jobId = jobId]}
  /\ UNCHANGED <<calls, pool, ruleResult, extraction, API_KEY, extracted, prompt, mail, client, corrections, nextId, accounts, nextJob, tags, req>>

deleteEmailImport(rowId) ==
  /\ \E row \in store : row.id = rowId
  /\ store' = {row \in store : row.id # rowId}
  /\ UNCHANGED <<calls, pool, ruleResult, extraction, API_KEY, extracted, prompt, mail, client, corrections, nextId, accounts, nextJob, tags, req>>

\* approveEmailImport as the server runs it when several invocations are in
\* flight: the status check (lines 166-176) and the transaction (179-207) are
\* separated by awaits, so another invocation may run between them.

\* mutation: the check lets an import of any status through
CheckAcceptsAnyStatus(row) == TRUE

\* emailImport.status !== "pending" returns "Import already processed"
CheckAccepts(row) == row.status = "pending"

\* findUnique({ where: { id: importId, userId } }) and the two early returns
approveCheck(c, rowId) ==
  /\ calls[c].pc = "idle"
  /\ LET found == {row \in store : row.id = rowId} IN
       calls' = [calls EXCEPT ![c] =
         IF found = {}
           THEN [pc |-> "done", importId |-> rowId, result |-> "Import not found", job |-> 0]
         ELSE IF \E row \in found : ~CheckAccepts(row)
           THEN [pc |-> "done", importId |-> rowId, result |-> "Import already processed", job |-> 0]
         ELSE [pc |-> "checked", importId |-> rowId, result |-> "none", job |-> 0]]
  /\ UNCHANGED <<store, nextJob, pool, ruleResult, extraction, API_KEY, extracted, prompt, mail, client, corrections, nextId, accounts, tags, req>>

\* prisma.$transaction: tx.job.create, then tx.emailImport.update({ where:
\* { id }, data: { status: "approved", jobId: job.id } }); the update does not
\* look at the status. When the row is gone the update throws, the
\* transaction rolls back and the catch block returns the error.
approveTransaction(c) ==
  /\ calls[c].pc = "checked"
  /\ LET found == {row \in store : row.id = calls[c].importId} IN
       IF found = {}
         THEN /\ calls' = [calls EXCEPT ![c].pc = "done", ![c].result = "error"]
              /\ UNCHANGED <<store, nextJob>>
         ELSE /\ store' = (store \ found) \cup
                   {[row EXCEPT !.status = "approved", !.jobId = nextJob] : row \in found}
              /\ nextJob' = nextJob + 1
              /\ calls' = [calls EXCEPT ![c].pc = "done", ![c].result = "success",
                                        ![c].job = nextJob]
  /\ UNCHANGED <<pool, ruleResult, extraction, API_KEY, extracted, prompt, mail, client, corrections, nextId, accounts, tags, req>>

\* getCurrentUser, findUnique or a statement of the transaction throws: the
\* transaction, if begun, is rolled back and handleError's value is returned
approveThrows(c) ==
  /\ calls[c].pc \in {"idle", "checked"}
  /\ calls' = [calls EXCEPT ![c].pc = "done", ![c].result = "error"]
  /\ UNCHANGED <<store, nextJob, pool, ruleResult, extraction, API_KEY, extracted, prompt, mail, client, corrections, nextId, accounts, tags, req>>

\* ------------------------------------------------- local sync script (client)

RECURSIVE RulesFrom(_, _, _)
\* the loops of classifyByRules from rule i of the type at position `type`
\* of the order: a rule whose pattern does not match or whose condition
\* fails is passed over
RulesFrom(content, type, i) ==
  IF type > Len(CheckOrder) THEN "none"
  ELSE LET rules == RuleTable[CheckOrder[type]] IN
    IF i > Len(rules) THEN RulesFrom(content, type + 1, 1)
    ELSE IF /\ rules[i].id \in content.pattern
            /\ rules[i].conditional => rules[i].id \in content.condition
      THEN CheckOrder[type]
      ELSE RulesFrom(content, type, i + 1)

\* the type classifyByRules returns for each message, "none" for null
RuleMatch == [b \in MsgBases |-> RulesFrom(mail[b], 1, 1)]

\* classifyByRules: the matched type with confidence 0.95, or null ("none")
classifyByRules(b) ==
  IF RuleMatch[b] = "none" THEN TypeConf("none", 0)
  ELSE TypeConf(RuleMatch[b], RULE_CONFIDENCE)

FewShotOldest(list) ==
  IF Len(list) = 0 THEN [built |-> TRUE, section |-> FALSE, examples |-> <<>>]
  ELSE LET recent == SubSeq(list, 1, IF Len(list) > MAX_EXAMPLES THEN MAX_EXAMPLES ELSE Len(list))
       IN [built |-> TRUE, section |-> TRUE,
           examples |-> [i \in 1..Len(recent) |-> [n |-> i, correction |-> recent[i]]]]

\* buildFewShotExamples: "" for an empty list, else the section with
\* corrections.slice(-maxExamples) rendered as Example 1, 2, ...
buildFewShotExamples(list) ==
  IF Len(list) = 0 THEN [built |-> TRUE, section |-> FALSE, examples |-> <<>>]
  ELSE LET recent == IF Len(list) > MAX_EXAMPLES
                       THEN SubSeq(list, Len(list) - MAX_EXAMPLES + 1, Len(list))
                       ELSE list
       IN [built |-> TRUE, section |-> TRUE,
           examples |-> [i \in 1..Len(recent) |-> [n |-> i, correction |-> recent[i]]]]

RECURSIVE FirstRuleStopsAtCondition(_, _, _)
FirstRuleStopsAtCondition(content, type, i) ==
  IF type > Len(CheckOrder) THEN [type |-> "none", reason |-> "none"]
  ELSE LET rules == RuleTable[CheckOrder[type]] IN
    IF i > Len(rules) THEN FirstRuleStopsAtCondition(content, type + 1, 1)
    ELSE IF rules[i].id \in content.pattern
      THEN IF rules[i].conditional => rules[i].id \in content.condition
             THEN [type |-> CheckOrder[type], reason |-> rules[i].id]
             ELSE [type |-> "none", reason |-> "none"]
      ELSE FirstRuleStopsAtCondition(content, type, i + 1)

RECURSIVE FirstRule(_, _, _)
\* the loops of classifyByRules, with the type and the reason of the rule
\* at which they return
FirstRule(content, type, i) ==
  IF type > Len(CheckOrder) THEN [type |-> "none", reason |-> "none"]
  ELSE LET rules == RuleTable[CheckOrder[type]] IN
    IF i > Len(rules) THEN FirstRule(content, type + 1, 1)
    ELSE IF rules[i].id \in content.pattern
      THEN IF rules[i].conditional => rules[i].id \in content.condition
             THEN [type |-> CheckOrder[type], reason |-> rules[i].id]
             ELSE FirstRule(content, type, i + 1)
      ELSE FirstRule(content, type, i + 1)

\* a call of classifyByRules on stored message b, and the value it returns
ClassifyByRulesCall(b) ==
  /\ LET first == FirstRule(mail[b], 1, 1) IN
     ruleResult' = [called |-> TRUE, b |-> b, type |-> first.type,
                    confidence |-> IF first.type = "none" THEN 0 ELSE RULE_CONFIDENCE,
                    reason |-> first.reason]
  /\ ruleResult' # ruleResult
  /\ UNCHANGED <<calls, pool, extraction, API_KEY, extracted, prompt, mail, store, nextId, accounts, nextJob, tags, req, client, corrections>>

ClassifyDefaultsToCertain(llm) ==
  IF llm.type = "failed" THEN TypeConf("none", 0)
  ELSE TypeConf(IF llm.type = "" THEN "other" ELSE llm.type,
                IF llm.confidence = 0 THEN PROMOTION_CONFIDENCE ELSE llm.confidence)

\* classifyWithOllama: null ("none") on any failure, else the parsed answer
\* with result.type || "other" and result.confidence || 0.5; a type or a
\* confidence that the answer omits is "" or 0 here
classifyWithOllama(llm) ==
  IF llm.type = "failed" THEN TypeConf("none", 0)
  ELSE TypeConf(IF llm.type = "" THEN "other" ELSE llm.type,
                IF llm.confidence = 0 THEN DEFAULT_CONFIDENCE ELSE llm.confidence)

\* the script's query: tag:new AND ... AND NOT (tag:jobsync/<type> OR ...)
ScriptQueryMatches(b) == tags[b].new /\ tags[b].cls \notin CLASSIFICATION_TYPES

RECURSIVE ScriptSelectedFrom(_, _)
ScriptSelectedFrom(b, last) ==
  IF b > last THEN <<>>
  ELSE (IF ScriptQueryMatches(b) THEN <<b>> ELSE <<>>)
         \o ScriptSelectedFrom(b + 1, last)

ScriptQueryNewEmails == ScriptSelectedFrom(1, Cardinality(MsgBases))

\* the script's markEmailProcessed: brackets stripped, then
\* notmuch tag -new [+jobsync/<type>] -- id:<clean id>
ScriptMarkProcessed(mid, type) ==
  LET cleanId == StripBrackets(mid) IN
  IF NotmuchKnows(cleanId)
    THEN [tags EXCEPT ![cleanId[1]].new = FALSE,
                      ![cleanId[1]].cls =
                         IF type \in CLASSIFICATION_TYPES THEN type ELSE @]
    ELSE tags

\* the monitored addresses among the fromEmail/toEmail of the imports of a
\* request body
TouchedAccounts(imports) ==
  {email \in MONITORED_EMAILS :
     \E i \in DOMAIN imports :
       email \in {Headers[imports[i].mid[1]].fromEmail, Headers[imports[i].mid[1]].toEmail}}

\* main of the sync script up to the workers: query for new messages
SyncStart ==
  /\ client.pc = "idle"
  /\ ScriptQueryNewEmails # <<>>
  /\ client' = [IdleClient EXCEPT !.pc = "sync", !.kind = "sync",
                                  !.batch = ScriptQueryNewEmails]
  /\ UNCHANGED <<calls, pool, ruleResult, extraction, API_KEY, extracted, prompt, mail, store, nextId, accounts, nextJob, tags, req, corrections>>

\* the step of main after the last result: send toSend, or nothing to send
AfterSync(c) ==
  IF c.idx < Len(c.batch) THEN c
  ELSE [c EXCEPT !.pc = IF c.toSend = <<>> THEN "done" ELSE "send"]

\* processOneEmail for the next selected message, and its aggregation in main
processOneEmail(parseFails, llm) ==
  /\ client.pc = "sync"
  /\ LET b == client.batch[client.idx + 1]
         mid == ParsedMessageId(b)
         byRule == classifyByRules(b)
         c == IF byRule.type # "none" THEN byRule ELSE classifyWithOllama(llm)
         next == [client EXCEPT !.idx = @ + 1]
     IN
     /\ IF parseFails
          THEN /\ client' = AfterSync([next EXCEPT !.skipped = @ + 1])
               /\ UNCHANGED tags
          ELSE IF c.type = "none"
            THEN /\ client' = AfterSync([next EXCEPT !.failed = @ + 1])
                 /\ UNCHANGED tags
            ELSE IF ~isJobRelated(c) \/ c.confidence < CONFIDENCE_THRESHOLD
              THEN /\ tags' = ScriptMarkProcessed(mid, c.type)
                   /\ client' = AfterSync([next EXCEPT !.skipped = @ + 1])
              ELSE /\ tags' = ScriptMarkProcessed(mid, c.type)
                   /\ client' = AfterSync([next EXCEPT !.toSend = Append(@,
                        [mid |-> mid, classification |-> c.type,
                         confidence |-> c.confidence, extractedData |-> "extracted"])])
     /\ prompt' = IF ~parseFails /\ byRule.type = "none"
                    THEN buildFewShotExamples(corrections)
                    ELSE prompt
  /\ UNCHANGED <<calls, pool, ruleResult, extraction, API_KEY, extracted, mail, store, nextId, accounts, nextJob, req, corrections>>

\* ------------------------------------------------ the sync script's worker pool

\* the slot of the results array that has not been assigned
NoResult == [status |-> "empty", data |-> NoImport]

\* the value processOneEmail returns for message b
ProcessResult(b, parseFails, llm) ==
  LET byRule == classifyByRules(b)
      c == IF byRule.type # "none" THEN byRule ELSE classifyWithOllama(llm)
  IN IF parseFails THEN [status |-> "parse_failed", data |-> NoImport]
     ELSE IF c.type = "none" THEN [status |-> "classify_failed", data |-> NoImport]
     ELSE IF ~isJobRelated(c) \/ c.confidence < CONFIDENCE_THRESHOLD
       THEN [status |-> "skipped", data |-> NoImport]
     ELSE [status |-> "job_related",
           data |-> [mid |-> ParsedMessageId(b), classification |-> c.type,
                     confidence |-> c.confidence, extractedData |-> "extracted"]]

TakeNextKeepsIndex(p, w, n) ==
  IF p.index < n
    THEN [p EXCEPT !.index = IF w = 1 THEN @ + 1 ELSE @,
                   !.worker[w] = [pc |-> "await", item |-> p.index + 1]]
    ELSE [p EXCEPT !.worker[w] = [pc |-> "exit", item |-> 0]]

\* the worker's loop head: take the next index, or leave the loop
TakeNext(p, w, n) ==
  IF p.index < n
    THEN [p EXCEPT !.index = @ + 1,
                   !.worker[w] = [pc |-> "await", item |-> p.index + 1]]
    ELSE [p EXCEPT !.worker[w] = [pc |-> "exit", item |-> 0]]

RECURSIVE StartWorkers(_, _, _, _)
\* workers.push(worker()) for w = from..k: each call runs to its first await
StartWorkers(p, from, k, n) ==
  IF from > k THEN p ELSE StartWorkers(TakeNext(p, from, n), from + 1, k, n)

\* main up to the call of runWithConcurrency, and the start of the workers
PoolStart(concurrency) ==
  /\ client.pc = "idle"
  /\ ScriptQueryNewEmails # <<>>
  /\ LET items == ScriptQueryNewEmails
         n == Len(items)
         k == IF concurrency < n THEN concurrency ELSE n
         p == [index |-> 0, results |-> [i \in 1..n |-> NoResult], completed |-> 0,
               finished |-> <<>>,
               worker |-> [w \in 1..k |-> [pc |-> "loop", item |-> 0]]]
     IN /\ client' = [IdleClient EXCEPT !.pc = "workers", !.kind = "sync", !.batch = items]
        /\ pool' = StartWorkers(p, 1, k, n)
  /\ UNCHANGED <<calls, ruleResult, extraction, API_KEY, extracted, prompt, mail, store, nextId, accounts, nextJob, tags, req, corrections>>

StoreByCompletion(p, item, res) ==
  [p EXCEPT !.results[p.completed + 1] = res]

\* results[currentIndex] = result
StoreResult(p, item, res) ==
  [p EXCEPT !.results[item] = res]

\* fn has settled for worker w: the result (or the error) is stored, completed
\* is counted, and the worker goes round its loop
WorkerFinish(w, parseFails, llm, throws) ==
  /\ client.pc = "workers"
  /\ w \in DOMAIN pool.worker
  /\ pool.worker[w].pc = "await"
  /\ LET item == pool.worker[w].item
         b == client.batch[item]
         res == IF throws THEN [status |-> "error", data |-> NoImport]
                ELSE ProcessResult(b, parseFails, llm)
         stored == StoreResult(pool, item, res)
         counted == [stored EXCEPT !.completed = @ + 1, !.finished = Append(@, item)]
     IN /\ pool' = TakeNext(counted, w, Len(client.batch))
        /\ tags' = IF res.status \in {"skipped", "job_related"}
                     THEN ScriptMarkProcessed(ParsedMessageId(b),
                            IF classifyByRules(b).type # "none"
                              THEN classifyByRules(b).type
                              ELSE classifyWithOllama(llm).type)
                     ELSE tags
        /\ prompt' = IF ~throws /\ ~parseFails /\ classifyByRules(b).type = "none"
                       THEN buildFewShotExamples(corrections)
                       ELSE prompt
  /\ UNCHANGED <<calls, ruleResult, extraction, API_KEY, extracted, mail, store, nextId, accounts, nextJob, req, client, corrections>>

\* the fetch of an LLM call (classification, or the extraction fallback of a
\* job-related message) never settles: no signal or timer is passed to fetch
WorkerHangs(w) ==
  /\ client.pc = "workers"
  /\ w \in DOMAIN pool.worker
  /\ pool.worker[w].pc = "await"
  /\ classifyByRules(client.batch[pool.worker[w].item]).type # "other"
  /\ pool' = [pool EXCEPT !.worker[w].pc = "hung"]
  /\ UNCHANGED <<calls, ruleResult, extraction, API_KEY, extracted, prompt, mail, store, nextId, accounts, nextJob, tags, req, client, corrections>>

RECURSIVE AggregateFrom(_, _, _)
\* the loop over results in main
AggregateFrom(c, results, i) ==
  IF i > Len(results) THEN c
  ELSE LET r == results[i] IN
    AggregateFrom(
      IF r.status = "job_related" THEN [c EXCEPT !.toSend = Append(@, r.data)]
      ELSE IF r.status \in {"error", "classify_failed"} THEN [c EXCEPT !.failed = @ + 1]
      ELSE [c EXCEPT !.skipped = @ + 1],
      results, i + 1)

\* results.length: the array is as long as its last assigned index
ResultsLength(results) ==
  LET assigned == {i \in DOMAIN results : results[i] # NoResult}
  IN IF assigned = {} THEN 0 ELSE CHOOSE i \in assigned : \A j \in assigned : j <= i

\* Promise.all(workers) has resolved: main aggregates the results
Aggregate ==
  /\ client.pc = "workers"
  /\ \A w \in DOMAIN pool.worker : pool.worker[w].pc = "exit"
  /\ client' = AfterSync(AggregateFrom([client EXCEPT !.idx = Len(client.batch)],
                           SubSeq(pool.results, 1, ResultsLength(pool.results)), 1))
  /\ UNCHANGED <<calls, pool, ruleResult, extraction, API_KEY, extracted, prompt, mail, store, nextId, accounts, nextJob, tags, req, corrections>>

\* ------------------------------------------------ correction scanner (client)

\* the user's correction in the mail client: the jobsync/<type> tag is changed
\* to t and jobsync-was/<original> is added; explicit also adds jobsync-corrected
UserCorrects(b, t, explicit) ==
  /\ tags[b].cls \in CLASSIFICATION_TYPES
  /\ tags[b].was = "none"
  /\ t # tags[b].cls
  /\ Len(corrections) < MaxPool
  /\ tags' = [tags EXCEPT ![b].cls = t, ![b].was = tags[b].cls,
                          ![b].corrected = explicit]
  /\ UNCHANGED <<calls, pool, ruleResult, extraction, API_KEY, extracted, prompt, mail, store, nextId, accounts, nextJob, req, client, corrections>>

RECURSIVE ExplicitFrom(_, _)
\* strategy 1: messages carrying tag:jobsync-corrected
ExplicitFrom(b, last) ==
  IF b > last THEN <<>>
  ELSE (IF tags[b].corrected
          THEN <<[b |-> b, originalType |-> "none", source |-> "explicit"]>>
          ELSE <<>>) \o ExplicitFrom(b + 1, last)

RECURSIVE WasTaggedFrom(_, _, _)
\* strategy 2, for one type: messages carrying tag:jobsync-was/<type>
WasTaggedFrom(type, b, last) ==
  IF b > last THEN <<>>
  ELSE (IF tags[b].was = type
          THEN <<[b |-> b, originalType |-> type, source |-> "was-tag"]>>
          ELSE <<>>) \o WasTaggedFrom(type, b + 1, last)

RECURSIVE WasTaggedByType(_)
WasTaggedByType(i) ==
  IF i > Len(ClassificationOrder) THEN <<>>
  ELSE WasTaggedFrom(ClassificationOrder[i], 1, Cardinality(MsgBases))
         \o WasTaggedByType(i + 1)

findCorrectedEmails ==
  ExplicitFrom(1, Cardinality(MsgBases)) \o WasTaggedByType(1)

PromotionKeepsOriginal(mid, origType, correctedType) ==
  [mid |-> mid, classification |-> origType, confidence |-> CONFIDENCE_THRESHOLD,
   extractedData |-> "empty"]

\* importData of the promotion branch
PromotionImport(mid, origType, correctedType) ==
  [mid |-> mid, classification |-> correctedType,
   confidence |-> PROMOTION_CONFIDENCE, extractedData |-> "empty"]

\* the phase of main that follows `phase`: the non-empty lists are sent in the
\* order new imports (POST), corrections (PATCH), deletions (DELETE)
PhaseAfter(c, phase) ==
  IF phase = "scan" /\ c.newImportsList # <<>> THEN "sendImports"
  ELSE IF phase \in {"scan", "sendImports"} /\ c.correctionsList # <<>>
    THEN "sendCorrections"
  ELSE IF phase \in {"scan", "sendImports", "sendCorrections"} /\ c.deleteList # <<>>
    THEN "delete"
  ELSE "done"

KeepOldest(list) ==
  IF Len(list) > MAX_HIGH_VARIANCE_CORRECTIONS
    THEN SubSeq(list, 1, MAX_HIGH_VARIANCE_CORRECTIONS)
    ELSE list

\* existingData.corrections.slice(-MAX_HIGH_VARIANCE_CORRECTIONS)
KeepMostRecent(list) ==
  IF Len(list) > MAX_HIGH_VARIANCE_CORRECTIONS
    THEN SubSeq(list, Len(list) - MAX_HIGH_VARIANCE_CORRECTIONS + 1, Len(list))
    ELSE list

\* after the loop: the first send, once every corrected message was visited
AfterScan(c) ==
  IF c.idx < Len(c.batch) THEN c
  ELSE [c EXCEPT !.pc = PhaseAfter(c, "scan"), !.idx = 0]

\* the list saved to corrections.json after the loop
SavedAfterScan(c, list) ==
  IF c.idx < Len(c.batch) THEN list ELSE KeepMostRecent(list)

\* main of the scanner up to the loop
ScanStart ==
  /\ client.pc = "idle"
  /\ LET c == [IdleClient EXCEPT !.pc = "scan", !.kind = "scan",
                                 !.batch = findCorrectedEmails]
     IN /\ client' = AfterScan(c)
        /\ corrections' = SavedAfterScan(c, corrections)
  /\ UNCHANGED <<calls, pool, ruleResult, extraction, API_KEY, extracted, prompt, mail, store, nextId, accounts, nextJob, tags, req>>

AlwaysHighVariance(b) == TRUE

\* isHighVarianceCorrection: true exactly when no rule matches the message
isHighVarianceCorrection(b) == classifyByRules(b).type = "none"

SkipsOnlyUnknownOrigin(origType, correctedType) == origType = "none"

\* if (!origType || origType === correctedType) continue
SkipsCandidate(origType, correctedType) ==
  origType = "none" \/ origType = correctedType

\* one iteration of the loop of main over the corrected messages
ScanOne(parseFails) ==
  /\ client.pc = "scan"
  /\ LET e == client.batch[client.idx + 1]
         messageId == <<e.b, "bare">>
         correctedType == tags[e.b].cls
         origType == IF e.originalType # "none" THEN e.originalType
                     ELSE IF e.source = "explicit" THEN tags[e.b].was
                     ELSE "none"
         highVariance == isHighVarianceCorrection(e.b)
         correction == [mid |-> messageId, originalType |-> origType,
                        correctedType |-> correctedType]
         next == [client EXCEPT !.idx = @ + 1]
         counted == [next EXCEPT !.newCorrections = @ + 1]
         routed ==
           IF origType = "other" /\ correctedType # "other"
             THEN [counted EXCEPT !.newImportsList = Append(@,
                     PromotionImport(ParsedMessageId(e.b), origType, correctedType))]
           ELSE IF correctedType = "other" /\ origType # "other"
             THEN [counted EXCEPT !.deleteList = Append(@, messageId)]
           ELSE IF origType # "other" /\ correctedType # "other"
             THEN [counted EXCEPT !.correctionsList = Append(@, correction)]
           ELSE counted
     IN
     IF \/ correctedType \notin CLASSIFICATION_TYPES
        \/ SkipsCandidate(origType, correctedType)
        \/ parseFails
       THEN /\ client' = AfterScan(next)
            /\ corrections' = SavedAfterScan(next, corrections)
            /\ UNCHANGED tags
       ELSE /\ client' = AfterScan(routed)
            /\ corrections' = SavedAfterScan(routed,
                 IF highVariance THEN Append(corrections, correction)
                 ELSE corrections)
            /\ tags' = [tags EXCEPT
                 ![e.b].was = IF @ = origType THEN "none" ELSE @,
                 ![e.b].corrected = FALSE]
  /\ UNCHANGED <<calls, pool, ruleResult, extraction, API_KEY, extracted, prompt, mail, store, nextId, accounts, nextJob, req>>

\* sendToServer of the sync script: POST { imports: toSend }
sendToServer ==
  /\ client.pc = "send"
  /\ StartPost(ClientSlot, Len(client.toSend), TouchedAccounts(client.toSend), FALSE)

\* sendToServer when fetch throws or the response is not ok before any entry
\* was handled (server down, 401, 500): the error is logged, false is
\* returned and main ends
sendToServerFails ==
  /\ client.pc = "send"
  /\ req[ClientSlot].pc = "idle"
  /\ client' = [client EXCEPT !.pc = "done", !.idx = 0]
  /\ UNCHANGED <<calls, pool, ruleResult, extraction, API_KEY, extracted, prompt, mail, store, nextId, accounts, nextJob, tags, req, corrections>>

\* sendNewImportsToServer: POST { imports: newImportsList }
sendNewImportsToServer ==
  /\ client.pc = "sendImports"
  /\ StartPost(ClientSlot, Len(client.newImportsList),
               TouchedAccounts(client.newImportsList), FALSE)

\* sendCorrectionsToServer: PATCH { corrections: correctionsList }
sendCorrectionsToServer ==
  /\ client.pc = "sendCorrections"
  /\ StartPatch(ClientSlot, Len(client.correctionsList))

\* the imports array of the request the client has in flight
ClientImports ==
  IF client.kind = "sync" THEN client.toSend ELSE client.newImportsList

\* the server handles the next entry of the client's POST body
ServeImportLookup ==
  /\ client.pc \in {"send", "sendImports"}
  /\ req[ClientSlot].pc = "lookup"
  /\ PostLookup(ClientSlot, ClientImports[req[ClientSlot].idx + 1], FALSE)

\* the server handles the next entry of the client's PATCH body
ServeCorrectionFind(rowId) ==
  /\ client.pc = "sendCorrections"
  /\ req[ClientSlot].pc = "find"
  /\ PatchFind(ClientSlot, client.correctionsList[req[ClientSlot].idx + 1], rowId, FALSE)

\* the client reads the response (any status is only logged) and goes on
ClientReceives ==
  /\ client.pc \in {"send", "sendImports", "sendCorrections"}
  /\ req[ClientSlot].pc \in {"done", "failed"}
  /\ req' = [req EXCEPT ![ClientSlot] = IdleReq]
  /\ client' = [client EXCEPT !.pc = PhaseAfter(client, client.pc), !.idx = 0]
  /\ UNCHANGED <<calls, pool, ruleResult, extraction, API_KEY, extracted, prompt, mail, store, nextId, accounts, nextJob, tags, corrections>>

\* deleteFromServer, one item: DELETE ?messageId=<clean id>.  The route
\* exports no DELETE handler, the answer is 405 Method Not Allowed, so
\* response.ok is false and the item is counted as not found
deleteFromServerItem ==
  /\ client.pc = "delete"
  /\ "DELETE" \notin RouteMethods
  /\ client' = [client EXCEPT
       !.notFound = @ + 1,
       !.idx = @ + 1,
       !.pc = IF client.idx + 1 >= Len(client.deleteList) THEN "done" ELSE @]
  /\ UNCHANGED <<calls, pool, ruleResult, extraction, API_KEY, extracted, prompt, mail, store, nextId, accounts, nextJob, tags, req, corrections>>

\* the script's process ends; its locals are gone
ClientExit ==
  /\ client.pc = "done"
  /\ client' = IdleClient
  /\ UNCHANGED <<calls, pool, ruleResult, extraction, API_KEY, extracted, prompt, mail, store, nextId, accounts, nextJob, tags, req, corrections>>

\* ------------------------------------------------------------ specifications

LlmOutcomes == InPairs \cup {TypeConf("failed", 0)}

\* corrections delivered to the endpoint under Spec
SmallCorrections ==
  {c \in CorrectionInputs : c.originalType = "interview" /\ c.correctedType = "rejection"}

\* messageIds delivered to the endpoint under Spec: each message's header
\* form, and message 1 also with its brackets stripped
PostedIds == {<<1, "angle">>, <<1, "bare">>, <<2, "bare">>}

PostedInputs == {imp \in ImportInputs : imp.mid \in PostedIds}

\* the ingestion endpoint, one request at a time, any caller
Next ==
  \/ \E n \in 1..MaxBatch, touched \in SUBSET MONITORED_EMAILS, f \in BOOLEAN :
       StartPost(1, n, touched, f)
  \/ \E imp \in PostedInputs, f \in BOOLEAN : PostLookup(1, imp, f)
  \/ \E f \in BOOLEAN : PostInsert(1, f)
  \/ \E a \in BOOLEAN, f \in BOOLEAN : StartLocal(1, a, f)
  \/ \E p \in BOOLEAN, f \in BOOLEAN : LocalLookup(1, p, f)
  \/ \E llm \in LlmOutcomes : LocalClassify(1, llm)
  \/ \E f \in BOOLEAN : LocalInsert(1, f)
  \/ \E n \in 0..MaxBatch : StartPatch(1, n)
  \/ \E cor \in SmallCorrections, rowId \in 0..MaxIds, f \in BOOLEAN :
       PatchFind(1, cor, rowId, f)
  \/ \E f \in BOOLEAN : PatchUpdate(1, f)
  \/ Respond(1)

Spec == Init /\ [][Next]_vars

\* two producers deliver to the endpoint concurrently; rows may be deleted
\* by the reviewer and corrected in between
RaceIds == {<<1, "angle">>, <<2, "bare">>}

RaceInputs == {imp \in ImportInputs : imp.mid \in RaceIds /\ imp.confidence = 60}

NextRace ==
  \/ \E r \in Reqs, n \in 1..MaxBatch : StartPost(r, n, MONITORED_EMAILS, FALSE)
  \/ \E r \in Reqs, imp \in RaceInputs : PostLookup(r, imp, FALSE)
  \/ \E r \in Reqs : PostInsert(r, FALSE)
  \/ \E r \in Reqs : StartLocal(r, TRUE, FALSE)
  \/ \E r \in Reqs : LocalLookup(r, FALSE, FALSE)
  \/ \E r \in Reqs : LocalClassify(r, TypeConf("interview", 60))
  \/ \E r \in Reqs : LocalInsert(r, FALSE)
  \/ \E r \in Reqs : Respond(r)
  \/ \E id \in 1..MaxIds : deleteEmailImport(id)

SpecRace == Init /\ [][NextRace]_vars

\* corrections and reviewer actions on staged rows
ReviewInputs ==
  {imp \in ImportInputs : imp.mid \in RaceIds /\ imp.classification = "interview"
                          /\ imp.confidence = 60}

\* corrections that change the type, for every spelling of the ids
ReviewCorrections == {c \in CorrectionInputs : c.originalType # c.correctedType}

\* selections of several rows for a bulk action
BulkSelections == {ids \in SUBSET (1..MaxIds) : Cardinality(ids) >= 2}

NextReview ==
  \/ \E n \in 1..MaxBatch : StartPost(1, n, MONITORED_EMAILS, FALSE)
  \/ \E imp \in ReviewInputs : PostLookup(1, imp, FALSE)
  \/ PostInsert(1, FALSE)
  \/ \E n \in 1..MaxBatch : StartPatch(1, n)
  \/ \E cor \in ReviewCorrections, rowId \in 0..MaxIds : PatchFind(1, cor, rowId, FALSE)
  \/ PatchUpdate(1, FALSE)
  \/ Respond(1)
  \/ \E id \in 1..MaxIds : approveEmailImport(id)
  \/ \E id \in 1..MaxIds : rejectEmailImport(id)
  \/ \E id \in 1..MaxIds : skipEmailImport(id)
  \/ \E id \in 1..MaxIds : restoreToPending(id)
  \/ \E id \in 1..MaxIds : deleteEmailImport(id)
  \/ \E ids \in BulkSelections : bulkRejectEmailImports(ids)
  \/ \E ids \in BulkSelections : bulkSkipEmailImports(ids)
  \/ \E id \in 1..MaxIds, j \in 1..MaxJobs : linkToExistingJob(id, j)
  \/ DELETE(1)

SpecReview == Init /\ [][NextReview]_vars

\* the review page used from several browser tabs: imports arrive through the
\* endpoint and approveEmailImport is invoked by up to MaxCalls callers at once
NextApprove ==
  \/ \E n \in 1..MaxBatch : StartPost(1, n, MONITORED_EMAILS, FALSE)
  \/ \E imp \in ReviewInputs : PostLookup(1, imp, FALSE)
  \/ PostInsert(1, FALSE)
  \/ Respond(1)
  \/ \E id \in 1..MaxIds : deleteEmailImport(id)
  \/ \E c \in Callers, id \in 1..MaxIds : approveCheck(c, id)
  \/ \E c \in Callers : approveTransaction(c)
  \/ \E c \in Callers : approveThrows(c)

SpecApprove == Init /\ [][NextApprove]_vars

\* the local pipeline: sync script, user corrections, correction scanner and
\* the endpoint serving them
CorrectableTypes == {"other", "interview", "rejection"}

NextPipeline ==
  \/ SyncStart
  \/ \E p \in BOOLEAN, llm \in LlmOutcomes : processOneEmail(p, llm)
  \/ sendToServer
  \/ \E b \in MsgBases, t \in CorrectableTypes, x \in BOOLEAN : UserCorrects(b, t, x)
  \/ ScanStart
  \/ \E p \in BOOLEAN : ScanOne(p)
  \/ sendNewImportsToServer
  \/ sendCorrectionsToServer
  \/ ServeImportLookup
  \/ PostInsert(ClientSlot, FALSE)
  \/ \E rowId \in 0..MaxIds : ServeCorrectionFind(rowId)
  \/ PatchUpdate(ClientSlot, FALSE)
  \/ ClientReceives
  \/ deleteFromServerItem
  \/ ClientExit

SpecPipeline == Init /\ [][NextPipeline]_vars

\* the sync script run on a mail store whose first message has any content
InitRules ==
  /\ store = {}
  /\ nextId = 1
  /\ accounts = {}
  /\ nextJob = 1
  /\ tags = [b \in MsgBases |-> NewMessageTags]
  /\ req = [r \in Reqs |-> IdleReq]
  /\ client = IdleClient
  /\ corrections = <<>>
  /\ mail \in {[StoredMail EXCEPT ![1] = c] : c \in MailContents}
  /\ prompt = NoPrompt
  /\ extracted = NoExtraction
  /\ API_KEY = ClientKey
  /\ pool = IdlePool
  /\ ruleResult = NoRuleResult
  /\ extraction = NoExtractionCall
  /\ calls = NoCalls

NextRules ==
  \/ SyncStart
  \/ \E p \in BOOLEAN, llm \in LlmOutcomes : processOneEmail(p, llm)
  \/ sendToServer
  \/ ServeImportLookup
  \/ PostInsert(ClientSlot, FALSE)
  \/ ClientReceives
  \/ ClientExit
  \/ \E b \in MsgBases : ClassifyByRulesCall(b)

SpecRules == InitRules /\ [][NextRules]_vars

\* the sync script with its worker pool, and the endpoint
ModelAnswers ==
  {TypeConf("interview", 60), TypeConf("other", 60), TypeConf("failed", 0),
   TypeConf("interview", 0), TypeConf("", 0)}

NextWorkers ==
  \/ \E concurrency \in 1..MaxWorkers : PoolStart(concurrency)
  \/ \E w \in 1..MaxWorkers, p \in BOOLEAN, llm \in ModelAnswers, t \in BOOLEAN :
       WorkerFinish(w, p, llm, t)
  \/ \E w \in 1..MaxWorkers : WorkerHangs(w)
  \/ Aggregate
  \/ sendToServer
  \/ ServeImportLookup
  \/ PostInsert(ClientSlot, FALSE)
  \/ ClientReceives
  \/ ClientExit

SpecWorkers == Init /\ [][NextWorkers]_vars

\* the same under the scheduling of the event loop: a step that can be taken
\* is taken eventually
SpecWorkersFair == SpecWorkers /\ WF_vars(NextWorkers)

\* the endpoint called by any client: any x-api-key header, labels inside
\* and outside the enumeration, with and without a configured secret
ApiLabels == {"interview", "newsletter"}

ApiInputs ==
  {[mid |-> m, classification |-> t, confidence |-> 60, extractedData |-> "posted"] :
     m \in RaceIds, t \in ApiLabels}

ApiCorrections ==
  {c \in [mid : RaceIds, originalType : {"interview"},
          correctedType : {"rejection", "newsletter"}] : TRUE}

InitApi ==
  /\ store = {}
  /\ nextId = 1
  /\ accounts = {}
  /\ nextJob = 1
  /\ tags = [b \in MsgBases |-> NewMessageTags]
  /\ req = [r \in Reqs |-> IdleReq]
  /\ client = IdleClient
  /\ corrections = <<>>
  /\ mail = StoredMail
  /\ prompt = NoPrompt
  /\ extracted = NoExtraction
  /\ API_KEY \in ConfiguredKeys
  /\ pool = IdlePool
  /\ ruleResult = NoRuleResult
  /\ extraction = NoExtractionCall
  /\ calls = NoCalls

NextApi ==
  \/ \E h \in HeaderKeys, n \in 1..MaxBatch : POST(1, h, n, MONITORED_EMAILS, FALSE)
  \/ \E imp \in ApiInputs : PostLookup(1, imp, FALSE)
  \/ PostInsert(1, FALSE)
  \/ \E h \in HeaderKeys, n \in 1..MaxBatch : PATCH(1, h, n)
  \/ \E cor \in ApiCorrections, rowId \in 0..MaxIds : PatchFind(1, cor, rowId, FALSE)
  \/ PatchUpdate(1, FALSE)
  \/ DELETE(1)
  \/ \E m \in RaceIds : updateExtractedData(1, m)
  \/ Respond(1)

SpecApi == InitApi /\ [][NextApi]_vars

\* ------------------------------------------------------- metadata merge

MergeOverwrites(existing, newData) ==
  [k \in ExtractedFields |->
     IF Truthy(newData[k]) THEN newData[k] ELSE existing[k]]

\* mergeExtractedData: a copy of existing in which a key of newData is
\* assigned where newData[key] is truthy and the copy's value is not
mergeExtractedData(existing, newData) ==
  [k \in ExtractedFields |->
     IF newData[k] # "undefined" /\ Truthy(newData[k]) /\ ~Truthy(existing[k])
       THEN newData[k]
       ELSE existing[k]]

\* extracted = mergeExtractedData(extracted, llmExtracted) in extractMetadata,
\* and the merge of the classification's data with it in processOneEmail
MergeCall ==
  /\ ~extracted.returned
  /\ extracted' = [extracted EXCEPT
                     !.result = mergeExtractedData(extracted.existing, extracted.newData),
                     !.returned = TRUE]
  /\ UNCHANGED <<calls, pool, ruleResult, extraction, API_KEY, prompt, mail, store, nextId, accounts, nextJob, tags, req, client, corrections>>

\* processOneEmail, for a job-related message: the data of the classification
\* is merged with the data extractMetadata returned, in this order of arguments
MergeForStaging(classificationData, ruleExtracted) ==
  /\ ~extracted.returned
  /\ extracted' = [existing |-> classificationData,
                   newData |-> ruleExtracted,
                   result |-> mergeExtractedData(classificationData, ruleExtracted),
                   returned |-> TRUE]
  /\ UNCHANGED <<calls, pool, ruleResult, extraction, API_KEY, prompt, mail, store, nextId, accounts, nextJob, tags, req, client, corrections>>

NextStaging ==
  \E classificationData \in ExtractedData, ruleExtracted \in ExtractedData :
    MergeForStaging(classificationData, ruleExtracted)

\* the merge of processOneEmail applied to any data of the model and any
\* data of the rules
SpecStaging == Init /\ [][NextStaging]_vars

\* the values of JOBSYNC_CONCURRENCY: parseInt gives any integer, or NaN for
\* text that is not a number; for 0, a negative number and NaN alike the loop
\* "for (i = 0; i < Math.min(concurrency, items.length); i++)" starts no
\* worker, and 0 stands for the three
ConcurrencyValues == 0..MaxWorkers

\* runs of the sync script under any configured concurrency, every call of
\* the per-message function returning
NextConcurrency ==
  \/ \E concurrency \in ConcurrencyValues : PoolStart(concurrency)
  \/ \E w \in 1..MaxWorkers, p \in BOOLEAN, llm \in ModelAnswers, t \in BOOLEAN :
       WorkerFinish(w, p, llm, t)
  \/ Aggregate
  \/ sendToServer
  \/ ServeImportLookup
  \/ PostInsert(ClientSlot, FALSE)
  \/ ClientReceives
  \/ ClientExit

SpecConcurrency == Init /\ [][NextConcurrency]_vars

\* runs of the sync script against a server that may be unreachable
NextDelivery ==
  \/ SyncStart
  \/ \E p \in BOOLEAN, llm \in LlmOutcomes : processOneEmail(p, llm)
  \/ sendToServer
  \/ sendToServerFails
  \/ ServeImportLookup
  \/ PostInsert(ClientSlot, FALSE)
  \/ ClientReceives
  \/ ClientExit

SpecDelivery == Init /\ [][NextDelivery]_vars

\* the same with every run and every request going on to its end
SpecDeliveryFair == SpecDelivery /\ WF_vars(NextDelivery)

\* the merge applied to any two metadata values
InitMerge ==
  /\ store = {}
  /\ nextId = 1
  /\ accounts = {}
  /\ nextJob = 1
  /\ tags = [b \in MsgBases |-> NewMessageTags]
  /\ req = [r \in Reqs |-> IdleReq]
  /\ client = IdleClient
  /\ corrections = <<>>
  /\ mail = StoredMail
  /\ API_KEY = ClientKey
  /\ pool = IdlePool
  /\ ruleResult = NoRuleResult
  /\ extraction = NoExtractionCall
  /\ calls = NoCalls
  /\ prompt = NoPrompt
  /\ extracted \in [existing : ExtractedData, newData : ExtractedData,
                     result : {NoExtraction.result}, returned : {FALSE}]

NextMerge == MergeCall

SpecMerge == InitMerge /\ [][NextMerge]_vars

\* the pipeline started with a corrections.json written by earlier scans and
\* with messages the sync script has classified and the user has retagged
OlderCorrection(i) ==
  [mid |-> <<Cardinality(MsgBases) + i, "bare">>, originalType |-> "interview",
   correctedType |-> "rejection"]

OlderPools ==
  {[i \in 1..k |-> OlderCorrection(i)] :
     k \in {0} \cup ((MAX_HIGH_VARIANCE_CORRECTIONS - 1)..MAX_HIGH_VARIANCE_CORRECTIONS)}

RetaggedStates ==
  {NewMessageTags,
   [new |-> FALSE, processed |-> FALSE, cls |-> "rejection", was |-> "interview",
    corrected |-> FALSE],
   [new |-> FALSE, processed |-> FALSE, cls |-> "interview", was |-> "other",
    corrected |-> TRUE]}

InitPool ==
  /\ store = {}
  /\ nextId = 1
  /\ accounts = {}
  /\ nextJob = 1
  /\ tags \in [MsgBases -> RetaggedStates]
  /\ req = [r \in Reqs |-> IdleReq]
  /\ client = IdleClient
  /\ corrections \in OlderPools
  /\ mail = StoredMail
  /\ prompt = NoPrompt
  /\ extracted = NoExtraction
  /\ API_KEY = ClientKey
  /\ pool = IdlePool
  /\ ruleResult = NoRuleResult
  /\ extraction = NoExtractionCall
  /\ calls = NoCalls

SpecPool == InitPool /\ [][NextPipeline]_vars

\* runs of the correction scanner on a mailbox that the user leaves alone
\* meanwhile, and the endpoint serving them
NextRescan ==
  \/ ScanStart
  \/ \E p \in BOOLEAN : ScanOne(p)
  \/ sendNewImportsToServer
  \/ sendCorrectionsToServer
  \/ ServeImportLookup
  \/ PostInsert(ClientSlot, FALSE)
  \/ \E rowId \in 0..MaxIds : ServeCorrectionFind(rowId)
  \/ PatchUpdate(ClientSlot, FALSE)
  \/ ClientReceives
  \/ deleteFromServerItem
  \/ ClientExit

\* tags after a correction by the user: with jobsync-was/<type> alone, and
\* with jobsync-corrected as well
CorrectedStates ==
  {NewMessageTags} \cup
  {[new |-> FALSE, processed |-> FALSE, cls |-> t[1], was |-> t[2], corrected |-> x] :
     t \in {<<"rejection", "interview">>, <<"interview", "other">>,
            <<"other", "interview">>},
     x \in BOOLEAN}

\* the first message was staged by an earlier sync
InitRescan ==
  /\ store = {NewRow(1, [mid |-> ParsedMessageId(1), classification |-> "interview",
                         confidence |-> CONFIDENCE_THRESHOLD,
                         extractedData |-> "posted"],
                     accountEmail(ParsedMessageId(1)))}
  /\ nextId = 2
  /\ accounts = {accountEmail(ParsedMessageId(1))}
  /\ nextJob = 1
  /\ tags \in [MsgBases -> CorrectedStates]
  /\ req = [r \in Reqs |-> IdleReq]
  /\ client = IdleClient
  /\ corrections \in OlderPools
  /\ mail = StoredMail
  /\ prompt = NoPrompt
  /\ extracted = NoExtraction
  /\ API_KEY = ClientKey
  /\ pool = IdlePool
  /\ ruleResult = NoRuleResult
  /\ extraction = NoExtractionCall
  /\ calls = NoCalls

SpecRescan == InitRescan /\ [][NextRescan]_vars

\* ------------------------------------------- rule-based extraction (scripts)

\* a URL of the text: whether it has one of the job paths (/job/, /jobs/,
\* /career/, /careers/, /apply, /application, /position) and which of the
\* filtered substrings it contains, if any
UrlKinds == {"plain", "unsubscribe", "image", "privacy"}

Urls == [jobPath : BOOLEAN, kind : UrlKinds]

\* the URLs of a text in the order in which they occur
UrlTexts == UNION {[1..n -> Urls] : n \in 0..MaxUrls}

\* the filter on match[1]: unsubscribe, tracking, .png/.jpg/.gif, privacy,
\* mailto:
Filtered(u) ==
  u.kind \in {"unsubscribe", "tracking", "image", "privacy", "mailto"}

\* text.match(pattern) without the g flag: the position of the leftmost
\* match, 0 for null. Pattern 1 matches a URL with a job path, pattern 2
\* any URL.
MatchUrl(pattern, urls) ==
  LET hits == {i \in DOMAIN urls : pattern = 2 \/ urls[i].jobPath}
  IN IF hits = {} THEN 0 ELSE CHOOSE i \in hits : \A j \in hits : i <= j

\* extractApplicationUrl: the position of the returned URL, 0 for null
extractApplicationUrl(urls) ==
  LET m1 == MatchUrl(1, urls)
      m2 == MatchUrl(2, urls)
  IN IF m1 # 0 /\ ~Filtered(urls[m1]) THEN m1
     ELSE IF m2 # 0 /\ ~Filtered(urls[m2]) THEN m2
     ELSE 0

\* a call of extractApplicationUrl on the text held in extraction
ExtractApplicationUrlCall ==
  /\ ~extraction.called
  /\ extraction' = [extraction EXCEPT
       !.called = TRUE,
       !.applicationUrl = extractApplicationUrl(extraction.urls)]
  /\ UNCHANGED <<calls, pool, ruleResult, API_KEY, extracted, prompt, mail, client, corrections, store, nextId, accounts, nextJob, tags, req>>

InitUrl ==
  /\ store = {}
  /\ nextId = 1
  /\ accounts = {}
  /\ nextJob = 1
  /\ tags = [b \in MsgBases |-> NewMessageTags]
  /\ req = [r \in Reqs |-> IdleReq]
  /\ client = IdleClient
  /\ corrections = <<>>
  /\ mail = StoredMail
  /\ prompt = NoPrompt
  /\ extracted = NoExtraction
  /\ API_KEY = ClientKey
  /\ pool = IdlePool
  /\ ruleResult = NoRuleResult
  /\ extraction \in {[NoExtractionCall EXCEPT !.urls = u] : u \in UrlTexts}
  /\ calls = NoCalls

NextUrl == ExtractApplicationUrlCall

SpecUrl == InitUrl /\ [][NextUrl]_vars

\* Texts are sequences of tokens: a word stands for the word preceded by one
\* space (none at the start of the text), "." for a full stop written directly
\* after the word before it. A value (match[1], company, jobTitle) is the
\* sequence of its tokens; the empty sequence stands for null and for "",
\* which the code treats alike (!value).
Titles == {<<"Senior", "Backend", "Engineer">>, <<"Engineer">>}

Employers ==
  {<<"Acme", "Pty", "Ltd">>, <<"Acme">>, <<"Acme", "Ltd">>, <<"Pty", "Ltd">>}

Connectives ==
  {<<"was", "successfully", "submitted", "to">>, <<"was", "submitted", "to">>,
   <<"at">>}

\* the texts: subject "" and a body of one sentence
Bodies ==
  {<<"your", "application", "for">> \o title \o c \o employer \o stop :
     title \in Titles, c \in Connectives, employer \in Employers,
     stop \in {<<".">>, <<>>}}

\* sender addresses: none, a SEEK address, an address of no job board
Senders == {"", "noreply@seek.com.au", "hr@acme.example"}

\* sender names: none, a careers mailbox, a person
SenderNames == {<<>>, <<"Initech", "Careers">>, <<"Jane", "Doe">>}

\* the literal lit stands in text t at token i
IsAt(t, i, lit) ==
  /\ i + Len(lit) - 1 <= Len(t)
  /\ SubSeq(t, i, i + Len(lit) - 1) = lit

\* /lead .+? mid (.+?)(?:term|$)/ and /lead (.+?)(?:term|$)/ as records:
\* leads, mids and terms are the alternatives of the literal parts, skip says
\* whether ".+? mid" is present, atEnd whether $ is among the terminators
Pattern(leads, skip, mids, terms, atEnd) ==
  [leads |-> leads, skip |-> skip, mids |-> mids, terms |-> terms, atEnd |-> atEnd]

\* SOURCE_PATTERNS.seek, the patterns whose words occur in Bodies
\* ("applied (?:for|to) ..." cannot match a text without "applied")
SeekCompanyPatterns ==
  <<Pattern({<<"application", "for">>}, TRUE,
            {<<"was", "successfully", "submitted", "to">>, <<"was", "submitted", "to">>},
            {<<".">>}, TRUE)>>

SeekJobTitlePatterns ==
  <<Pattern({<<"application", "for">>}, FALSE, {},
            {<<"was", "successfully", "submitted">>, <<"was", "submitted">>}, FALSE)>>

\* GENERIC_PATTERNS.company: "your application (?:to|at|with) (.+?)(?:\.|$)"
\* and "application for .+? at (.+?)(?:\.|$)"; the other four need "thank",
\* "has received", " - " or "position|role|job|opportunity"
GenericCompanyPatterns ==
  <<Pattern({<<"your", "application", "to">>, <<"your", "application", "at">>,
             <<"your", "application", "with">>}, FALSE, {}, {<<".">>}, TRUE),
    Pattern({<<"application", "for">>}, TRUE, {<<"at">>}, {<<".">>}, TRUE)>>

\* GENERIC_PATTERNS.jobTitle: "application for (?:the )?(?:position of )?
\* (.+?)(?:\.|!| at| has| was)" and "(?:applying for|applied for|application
\* for) (?:the )?(.+?) at"; the other seven need "applying", "position",
\* "the", "role", "job" or "title"
GenericJobTitlePatterns ==
  <<Pattern({<<"application", "for">>}, FALSE, {},
            {<<".">>, <<"!">>, <<"at">>, <<"has">>, <<"was">>}, FALSE),
    Pattern({<<"application", "for">>}, FALSE, {}, {<<"at">>}, FALSE)>>

\* the lengths a capture that begins at token p may have: a terminator, or
\* the end of the text when $ is allowed, follows it
CaptureLengths(pat, t, p) ==
  {c \in 1..(Len(t) - p + 1) :
     \/ \E term \in pat.terms : IsAt(t, p + c, term)
     \/ pat.atEnd /\ p + c = Len(t) + 1}

\* the lazy group (.+?) from token p: the shortest capture, the empty
\* sequence when there is none. A lazy group begins after a space, so on a
\* word.
CaptureFrom(pat, t, p) ==
  IF p > Len(t) THEN <<>>
  ELSE IF t[p] = "." \/ CaptureLengths(pat, t, p) = {} THEN <<>>
  ELSE LET c == CHOOSE c1 \in CaptureLengths(pat, t, p) :
                  \A c2 \in CaptureLengths(pat, t, p) : c1 <= c2
       IN SubSeq(t, p, p + c - 1)

\* the ways to complete a match whose lead ends before token q, as
\* <<skipped, first>>: the number of tokens taken by ".+?" and the token at
\* which the capture begins
CompletionsAfter(pat, t, q) ==
  IF ~pat.skip
    THEN IF CaptureFrom(pat, t, q) # <<>> THEN {<<0, q>>} ELSE {}
  ELSE IF q > Len(t) THEN {}
  ELSE IF t[q] = "." THEN {}
  ELSE UNION {{<<a, q + a + Len(mid)>> :
                 a \in {a1 \in 1..(Len(t) - q) :
                          /\ IsAt(t, q + a1, mid)
                          /\ CaptureFrom(pat, t, q + a1 + Len(mid)) # <<>>}} :
              mid \in pat.mids}

\* the same for a match that starts at token s
Completions(pat, t, s) ==
  UNION {IF IsAt(t, s, lead) THEN CompletionsAfter(pat, t, s + Len(lead)) ELSE {} :
           lead \in pat.leads}

\* text.match(pattern)[1], the empty sequence when there is no match: the
\* leftmost start, then the shortest lazy groups
Capture(pat, t) ==
  LET starts == {s \in 1..Len(t) : Completions(pat, t, s) # {}}
  IN IF starts = {} THEN <<>>
     ELSE LET s == CHOOSE s1 \in starts : \A s2 \in starts : s1 <= s2
              m == CHOOSE m1 \in Completions(pat, t, s) :
                     \A m2 \in Completions(pat, t, s) :
                       m1[1] < m2[1] \/ (m1[1] = m2[1] /\ m1[2] <= m2[2])
          IN CaptureFrom(pat, t, m[2])

RECURSIVE StripPunctuation(_)
\* .replace(/[.,!?;:]+$/, "")
StripPunctuation(v) ==
  IF v # <<>> /\ v[Len(v)] \in {".", ",", "!", "?", ";", ":"}
    THEN StripPunctuation(SubSeq(v, 1, Len(v) - 1))
    ELSE v

\* .replace(/\s*(?:Pty Ltd|Ltd|Inc|LLC|Corp|Corporation)\.?$/i, "")
StripCompanySuffix(v) ==
  IF Len(v) >= 2 /\ SubSeq(v, Len(v) - 1, Len(v)) = <<"Pty", "Ltd">>
    THEN SubSeq(v, 1, Len(v) - 2)
  ELSE IF v # <<>> /\ v[Len(v)] \in {"Ltd", "Inc", "LLC", "Corp", "Corporation"}
    THEN SubSeq(v, 1, Len(v) - 1)
  ELSE v

\* .replace(/\s*(?:Hiring|Careers|Recruiting|Talent|Jobs)$/i, "")
StripHiringSuffix(v) ==
  IF v # <<>> /\ v[Len(v)] \in {"Hiring", "Careers", "Recruiting", "Talent", "Jobs"}
    THEN SubSeq(v, 1, Len(v) - 1)
    ELSE v

CleanKeepsSuffix(value) == StripHiringSuffix(StripPunctuation(value))

\* cleanExtractedValue; the texts hold no HTML entities, quotes or runs of
\* whitespace
cleanExtractedValue(value) ==
  StripHiringSuffix(StripCompanySuffix(StripPunctuation(value)))

\* detectSource: "SEEK" when the sender address includes one of
\* "seek.com.au", "seek.com", "@seek"; the subject is empty and no body of
\* Bodies names a job board
detectSource(from) ==
  IF from = "noreply@seek.com.au" THEN "SEEK" ELSE "null"

RECURSIVE FirstCapture(_, _, _)
\* the loop over a pattern list: the cleaned capture of the first pattern
\* that matches
FirstCapture(patterns, i, t) ==
  IF i > Len(patterns) THEN <<>>
  ELSE IF Capture(patterns[i], t) # <<>>
    THEN cleanExtractedValue(Capture(patterns[i], t))
  ELSE FirstCapture(patterns, i + 1, t)

\* extractCompanyFromSender: "<name> Careers|Recruiting|Talent|HR|Jobs|
\* Hiring|Team", else the whole name unless it looks like a person's name
\* (two capitalised words); null without a name
extractCompanyFromSender(fromName) ==
  IF fromName = <<>> THEN <<>>
  ELSE IF Len(fromName) >= 2
          /\ fromName[Len(fromName)] \in
               {"Careers", "Recruiting", "Talent", "HR", "Jobs", "Hiring", "Team"}
    THEN cleanExtractedValue(SubSeq(fromName, 1, Len(fromName) - 1))
  ELSE IF Len(fromName) # 2 THEN cleanExtractedValue(fromName)
  ELSE <<>>

\* extractByRules: source, company, jobTitle and applicationUrl of the result
extractByRules(email) ==
  LET source == detectSource(email.from)
      sourceCompany ==
        IF source = "SEEK" THEN FirstCapture(SeekCompanyPatterns, 1, email.text)
        ELSE <<>>
      genericCompany ==
        IF sourceCompany # <<>> THEN sourceCompany
        ELSE FirstCapture(GenericCompanyPatterns, 1, email.text)
      company ==
        IF genericCompany # <<>> THEN genericCompany
        ELSE extractCompanyFromSender(email.fromName)
      sourceTitle ==
        IF source = "SEEK" THEN FirstCapture(SeekJobTitlePatterns, 1, email.text)
        ELSE <<>>
      jobTitle ==
        IF sourceTitle # <<>> THEN sourceTitle
        ELSE FirstCapture(GenericJobTitlePatterns, 1, email.text)
  IN [source |-> source, company |-> company, jobTitle |-> jobTitle,
      applicationUrl |-> extractApplicationUrl(email.urls)]

\* a call of extractByRules on the message held in extraction
ExtractByRulesCall ==
  /\ ~extraction.called
  /\ LET result == extractByRules(extraction)
     IN extraction' = [extraction EXCEPT
          !.called = TRUE,
          !.source = result.source,
          !.company = result.company,
          !.jobTitle = result.jobTitle,
          !.applicationUrl = result.applicationUrl]
  /\ UNCHANGED <<calls, pool, ruleResult, API_KEY, extracted, prompt, mail, client, corrections, store, nextId, accounts, nextJob, tags, req>>

InitExtract ==
  /\ store = {}
  /\ nextId = 1
  /\ accounts = {}
  /\ nextJob = 1
  /\ tags = [b \in MsgBases |-> NewMessageTags]
  /\ req = [r \in Reqs |-> IdleReq]
  /\ client = IdleClient
  /\ corrections = <<>>
  /\ mail = StoredMail
  /\ prompt = NoPrompt
  /\ extracted = NoExtraction
  /\ API_KEY = ClientKey
  /\ pool = IdlePool
  /\ ruleResult = NoRuleResult
  /\ extraction \in
       {[NoExtractionCall EXCEPT !.from = f, !.fromName = n, !.text = t, !.urls = u] :
          f \in Senders, n \in SenderNames, t \in Bodies,
          u \in {x \in UrlTexts : Len(x) <= 1}}
  /\ calls = NoCalls

NextExtract == ExtractByRulesCall

SpecExtract == InitExtract /\ [][NextExtract]_vars

\* the pipeline started on a mailbox whose tags the user has edited by hand:
\* jobsync-corrected without a jobsync-was tag, and a jobsync-was tag naming
\* the type the message carries
HandTaggedStates ==
  RetaggedStates \cup
  {[new |-> FALSE, processed |-> FALSE, cls |-> "interview", was |-> "none",
    corrected |-> TRUE],
   [new |-> FALSE, processed |-> FALSE, cls |-> "rejection", was |-> "rejection",
    corrected |-> FALSE]}

InitScan ==
  /\ store = {}
  /\ nextId = 1
  /\ accounts = {}
  /\ nextJob = 1
  /\ tags \in [MsgBases -> HandTaggedStates]
  /\ req = [r \in Reqs |-> IdleReq]
  /\ client = IdleClient
  /\ corrections = <<>>
  /\ mail = StoredMail
  /\ prompt = NoPrompt
  /\ extracted = NoExtraction
  /\ API_KEY = ClientKey
  /\ pool = IdlePool
  /\ ruleResult = NoRuleResult
  /\ extraction = NoExtractionCall
  /\ calls = NoCalls

SpecScan == InitScan /\ [][NextPipeline]_vars

\* ------------------------------------------------------------------- claims

Staged(mid) == \E row \in store : row.messageId = mid

ErrorReasons(r) == {req[r].errors[i] : i \in DOMAIN req[r].errors}

LoopPcs == {"lookup", "classify", "insert", "find", "update"}

\* C1: the staging store never holds two StagedImports with the same
\* messageId, whatever deliveries, deletions and races have happened.
C1_OnePerMessageId ==
  \A row1 \in store, row2 \in store :
    row1.messageId = row2.messageId => row1 = row2

\* two producers raced on one id and the unique index refused the second row
C1_Witness ==
  /\ \E r \in Reqs : "unique-constraint" \in ErrorReasons(r)
  /\ store # {}

\* C2: a delivery whose messageId is already staged (the lookup itself
\* succeeding) changes no row, is counted in skipped and adds no error.
C2_DuplicateIsNoOp ==
  [][\A r \in Reqs :
       ( /\ req[r].pc = "lookup"
         /\ req'[r].pc # "lookup" \/ req'[r].idx # req[r].idx
         /\ Staged(req'[r].imp.mid)
         /\ ~(Len(req'[r].errors) > Len(req[r].errors)
              /\ req'[r].errors[Len(req'[r].errors)] \in {"db", "parse"}) )
       => /\ store' = store
          /\ req'[r].skipped = req[r].skipped + 1
          /\ req'[r].processed = req[r].processed
          /\ req'[r].errors = req[r].errors]_vars

\* one batch created a row and then skipped the repeat of the same entry
C2_Witness ==
  /\ req[1].pc = "done" /\ req[1].kind = "pre" /\ req[1].n = 2
  /\ req[1].processed = 1 /\ req[1].skipped = 1 /\ req[1].errors = <<>>
  /\ nextId = 2
  /\ Cardinality(store) = 1

\* C3 (as claimed): a delivery that loses the race for a messageId is
\* counted as skipped and never reported as an error.
C3_RaceLoserSkipped ==
  \A r \in Reqs : "unique-constraint" \notin ErrorReasons(r)

\* C4 (as claimed): no StagedImport has type "other" or a confidence
\* below the threshold.
C4_OnlyConfidentJobRelatedStaged ==
  \A row \in store :
    row.classification # "other" /\ row.confidence >= CONFIDENCE_THRESHOLD

\* C5: a failing entry never makes the call fail as a whole: the error is
\* pushed, nothing is stored for that entry, the loop goes on with the next
\* entry, and the summary accounts for every entry of the batch.
C5_EntryFailureNeverAborts ==
  [][\A r \in Reqs :
       req[r].pc \in LoopPcs =>
         /\ req'[r].pc # "failed"
         /\ req'[r].http = req[r].http
         /\ Len(req'[r].errors) > Len(req[r].errors) =>
              /\ store' = store
              /\ req'[r].idx = req[r].idx + 1
              /\ req'[r].processed = req[r].processed
              /\ req'[r].skipped = req[r].skipped
              /\ req'[r].updated = req[r].updated
              /\ req'[r].notFound = req[r].notFound
         /\ req'[r].pc = "done" =>
              req'[r].processed + req'[r].skipped + req'[r].updated
                + req'[r].notFound + Len(req'[r].errors) = req'[r].n]_vars

\* a batch of two entries: one failed, the other one was stored or updated
C5_Witness ==
  /\ req[1].pc = "done" /\ req[1].n = 2
  /\ Len(req[1].errors) = 1
  /\ req[1].processed + req[1].updated = 1

ScanEntry == client.batch[client.idx + 1]

ScanOrigType ==
  IF ScanEntry.originalType # "none" THEN ScanEntry.originalType
  ELSE tags[ScanEntry.b].was

\* C7: a correction from "other" to a job-related type is queued as a new
\* import with classification = correctedType and confidence 1.0 and never as
\* an update; the POST that delivers the queue creates pending rows carrying
\* exactly that classification and confidence, and when it has answered
\* without errors every promoted message is staged.
C7_PromotionStagesNewImport ==
  [][/\ ( /\ client.pc = "scan"
          /\ client'.newCorrections = client.newCorrections + 1
          /\ ScanOrigType = "other"
          /\ tags[ScanEntry.b].cls # "other" )
        => /\ client'.newImportsList = Append(client.newImportsList,
                [mid |-> ParsedMessageId(ScanEntry.b),
                 classification |-> tags[ScanEntry.b].cls,
                 confidence |-> PROMOTION_CONFIDENCE,
                 extractedData |-> "empty"])
           /\ client'.correctionsList = client.correctionsList
           /\ client'.deleteList = client.deleteList
     /\ \A i \in DOMAIN client'.correctionsList :
          client'.correctionsList[i].originalType # "other"
     /\ (client.pc = "sendImports" /\ store' # store)
        => \E row \in store' :
             /\ store' = store \cup {row}
             /\ row.messageId = ClientImports[req[ClientSlot].idx + 1].mid
             /\ row.classification = ClientImports[req[ClientSlot].idx + 1].classification
             /\ row.classification \in CLASSIFICATION_TYPES \ {"other"}
             /\ row.confidence = PROMOTION_CONFIDENCE
             /\ row.status = "pending"
     /\ ( /\ client.pc = "sendImports"
          /\ client'.pc # "sendImports"
          /\ req[ClientSlot].pc = "done"
          /\ req[ClientSlot].errors = <<>> )
        => \A i \in DOMAIN client.newImportsList :
             Staged(client.newImportsList[i].mid)]_vars

\* the scan has ended after one promotion: the promoted message is staged as
\* a pending "interview" row with confidence 1.0 and nothing was sent as an update
C7_Witness ==
  /\ client.kind = "scan" /\ client.pc = "done"
  /\ Len(client.newImportsList) = 1
  /\ client.correctionsList = <<>>
  /\ \E row \in store :
       /\ row.messageId = client.newImportsList[1].mid
       /\ row.classification = "interview"
       /\ row.confidence = PROMOTION_CONFIDENCE
       /\ row.status = "pending"

\* C8 (as claimed): once the scan and its server calls are over, no row of
\* a message that was demoted to "other" is left in the staging store.
C8_DemotedRowDeleted ==
  (client.kind = "scan" /\ client.pc = "done") =>
    \A i \in DOMAIN client.deleteList :
      ~(\E row \in store : StripBrackets(row.messageId) = client.deleteList[i])

\* C9 (as claimed): a failed LLM call never yields the classification
\* "other"; the message is not staged and its tags are left as they were, so
\* the next batch selects it again.
C9_FailedClassificationIsNull ==
  [][\A r \in Reqs :
       LocalClassify(r, TypeConf("failed", 0)) =>
         /\ req'[r].imp.classification # "other"
         /\ store' = store
         /\ tags' = tags]_vars

\* C10 (as claimed): a message skipped by the policy check after a
\* successful classification is not staged, not reported as an error, and no
\* longer matches the batch query.
C10_PolicySkipMarksProcessed ==
  [][\A r \in Reqs, llm \in InPairs :
       (LocalClassify(r, llm) /\ req'[r].skipped = req[r].skipped + 1) =>
         LET b == req[r].imp.mid[1] IN
         /\ store' = store
         /\ req'[r].errors = req[r].errors
         /\ ~(tags'[b].new /\ ~tags'[b].processed)]_vars

\* C11: a correction counted by the scan is appended to the few-shot pool
\* exactly when no rule matches its message, and in both cases it is put on
\* exactly one of the lists that are forwarded to the server.
C11_HighVariancePartition ==
  [][( /\ client.pc = "scan"
       /\ client'.newCorrections = client.newCorrections + 1 )
     => /\ corrections' =
             IF RuleMatch[ScanEntry.b] = "none"
               THEN Append(corrections,
                      [mid |-> <<ScanEntry.b, "bare">>,
                       originalType |-> ScanOrigType,
                       correctedType |-> tags[ScanEntry.b].cls])
               ELSE corrections
        /\ Len(client'.newImportsList) + Len(client'.correctionsList)
              + Len(client'.deleteList)
            = Len(client.newImportsList) + Len(client.correctionsList)
              + Len(client.deleteList) + 1]_vars

\* one scan saw a correction of each kind: only the one of message 1 (no
\* rule matches) is in the pool, both were sent and both rows are updated
C11_Witness ==
  /\ client.kind = "scan" /\ client.pc = "done"
  /\ Len(client.correctionsList) = 2
  /\ Len(corrections) = 1 /\ corrections[1].mid[1] = 1
  /\ \A row \in store : row.classification = "rejection" <=> row.messageId[1] = 1
  /\ Cardinality(store) = 2

\* the few-shot list as the loop of the scan leaves it in this step
AppendedInStep ==
  IF /\ client.pc = "scan"
     /\ client'.newCorrections = client.newCorrections + 1
     /\ RuleMatch[ScanEntry.b] = "none"
    THEN Append(corrections,
           [mid |-> <<ScanEntry.b, "bare">>, originalType |-> ScanOrigType,
            correctedType |-> tags[ScanEntry.b].cls])
    ELSE corrections

\* C12: the list a scan saves holds at most 50 corrections: the 50 most
\* recently appended ones, in append order (all of them when there are
\* fewer).
C12_BoundedPool ==
  [][( /\ client.pc = "scan" \/ (client.pc = "idle" /\ client'.kind = "scan")
       /\ client'.pc # "scan" )
     => LET all == AppendedInStep
            kept == IF Len(all) > MAX_HIGH_VARIANCE_CORRECTIONS
                      THEN MAX_HIGH_VARIANCE_CORRECTIONS ELSE Len(all)
        IN /\ Len(corrections') = kept
           /\ \A i \in 1..kept :
                corrections'[i] = all[Len(all) - kept + i]]_vars

\* a scan appended the correction of message 1 to a list of 50: it is the
\* last of the 50 saved and the oldest entry is gone
C12_Witness ==
  /\ client.kind = "scan" /\ client.pc # "scan"
  /\ Len(corrections) = MAX_HIGH_VARIANCE_CORRECTIONS
  /\ corrections[MAX_HIGH_VARIANCE_CORRECTIONS].mid[1] = 1
  /\ corrections[1] = OlderCorrection(2)

\* C13 (as claimed): the status of a row changes only from pending to a
\* terminal status or from a terminal status back to pending, never from
\* one terminal status to another.
C13_TerminalOnlyFromPending ==
  [][\A row \in store, row2 \in store' :
       (row2.id = row.id /\ row2.status # row.status)
         => (row.status = "pending" \/ row2.status = "pending")]_vars

\* the priority of the labels as the claim states it
LabelPriority ==
  [other |-> 1, interview |-> 2, rejection |-> 3, job_response |-> 4, follow_up |-> 5]

\* the labels that have a rule whose pattern matches the message and whose
\* condition, if it has one, holds
SatisfiedLabels(content) ==
  {t \in DOMAIN LabelPriority :
     \E i \in DOMAIN RuleTable[t] :
       /\ RuleTable[t][i].id \in content.pattern
       /\ RuleTable[t][i].conditional => RuleTable[t][i].id \in content.condition}

\* C14: a message that satisfies a rule is given the first label, in the
\* order other, interview, rejection, job_response, follow_up, that has a
\* satisfied rule; in particular `other` whenever an `other` rule is satisfied.
C14_FirstLabelInPriorityOrder ==
  [][( /\ client.pc = "sync"
       /\ tags' # tags
       /\ SatisfiedLabels(mail[client.batch[client.idx + 1]]) # {} )
     => LET b == client.batch[client.idx + 1]
            sat == SatisfiedLabels(mail[b])
            label == tags'[b].cls
        IN /\ label \in sat
           /\ \A t \in sat : LabelPriority[label] <= LabelPriority[t]
           /\ "other" \in sat => label = "other"]_vars

\* message 1 satisfies an `other` rule and the `interview` rule, and a
\* conditional rule only by its pattern; the script has tagged it `other`
C14_Witness ==
  /\ {"o2", "i1", "j1"} \subseteq mail[1].pattern
  /\ "j1" \notin mail[1].condition
  /\ tags[1].cls = "other"

\* a field is present, in the sense of the claim, when it has a non-null value
Present(v) == v \notin {"undefined", "null"}

\* C15 as stated: the merge leaves both arguments as they are, keeps every
\* present (non-null) field of existing, and differs from existing only in
\* fields that existing lacks and newData has, where it takes newData's value.
C15_MergeKeepsNonNull ==
  [][extracted' # extracted =>
       /\ extracted'.existing = extracted.existing
       /\ extracted'.newData = extracted.newData
       /\ \A k \in ExtractedFields :
            LET old == extracted.existing[k]
                new == extracted.newData[k]
                res == extracted'.result[k]
            IN /\ Present(old) => res = old
               /\ res # old => ~Present(old) /\ Present(new) /\ res = new]_vars

\* C15 amended: the same with "present" read as non-empty: a missing, null or
\* empty-string field counts as absent, and an absent field of existing is
\* filled exactly when newData has a non-empty value for it.
C15_MergeKeepsNonEmpty ==
  [][extracted' # extracted =>
       /\ extracted'.existing = extracted.existing
       /\ extracted'.newData = extracted.newData
       /\ \A k \in ExtractedFields :
            LET old == extracted.existing[k]
                new == extracted.newData[k]
                res == extracted'.result[k]
            IN /\ Truthy(old) => res = old
               /\ res # old => ~Truthy(old) /\ Truthy(new) /\ res = new
               /\ ~Truthy(old) /\ Truthy(new) => res = new]_vars

\* a merge that kept the existing company against a different new one and
\* filled the missing job title
C15_Witness ==
  /\ extracted.returned
  /\ extracted.existing = [company |-> "Acme", jobTitle |-> "null"]
  /\ extracted.newData = [company |-> "Other", jobTitle |-> "Acme"]
  /\ extracted.result = [company |-> "Acme", jobTitle |-> "Acme"]

\* C20: the prompt built for the LLM carries min(5, size of the pool)
\* exemplars, they are the last entries of the pool in pool order, and the
\* exemplar section is there exactly when the pool is not empty.
C20_FewShotMostRecentFive ==
  [][prompt' # prompt =>
       LET n == Len(corrections)
           k == IF n > 5 THEN 5 ELSE n
       IN /\ Len(prompt'.examples) = k
          /\ \A i \in 1..k : /\ prompt'.examples[i].correction = corrections[n - k + i]
                             /\ prompt'.examples[i].n = i
          /\ prompt'.section = (n > 0)]_vars

\* a prompt built from a pool of more than five corrections
C20_Witness ==
  /\ prompt.built
  /\ Len(prompt.examples) = 5
  /\ Len(corrections) > 5
  /\ prompt.examples[5].correction = corrections[Len(corrections)]

\* C16 (as claimed): the staging key is the messageId without its enclosing
\* angle brackets, so no two StagedImports have messageIds that are equal
\* once the brackets are stripped.
C16_OneRowPerStrippedId ==
  \A row1 \in store, row2 \in store :
    StripBrackets(row1.messageId) = StripBrackets(row2.messageId) => row1 = row2

\* C17: a POST or PATCH whose x-api-key is missing or differs from the
\* configured secret, or any POST or PATCH while no secret is configured, is
\* answered with an error status, and neither it nor anything that follows
\* from it creates, updates or deletes a StagedImport or an email account.
C17_SharedSecretProtects ==
  [][/\ \A h \in HeaderKeys, n \in 1..MaxBatch :
          ( /\ POST(1, h, n, MONITORED_EMAILS, FALSE) \/ PATCH(1, h, n)
            /\ API_KEY = "unset" \/ h # API_KEY )
          => /\ req'[1].pc = "failed"
             /\ req'[1].http >= 400
             /\ store' = store
             /\ accounts' = accounts
     /\ req[1].kind = "rejected" => store' = store /\ accounts' = accounts]_vars

\* a request with a wrong or missing key has been refused by a server that
\* has a secret and rows staged
C17_Witness ==
  /\ API_KEY = ClientKey
  /\ req[1].kind = "rejected" /\ req[1].http = 401
  /\ store # {}

C19_ClassificationInEnumeration ==
  \A row \in store : row.classification \in CLASSIFICATION_TYPES

\* position of message b in the batch, and in the order of completion
BatchPos(b) == CHOOSE i \in DOMAIN client.batch : client.batch[i] = b
FinishedPos(b) == CHOOSE i \in DOMAIN pool.finished : pool.finished[i] = BatchPos(b)

\* the step in which main leaves runWithConcurrency and aggregates
Aggregating == client.pc = "workers" /\ client'.pc # "workers"

\* C21 as stated: nothing is counted or queued for sending while a worker is
\* still running, and the results are aggregated in the order in which the
\* messages completed.
C21_AggregatedInCompletionOrder ==
  [][/\ (client.pc = "workers" /\ ~Aggregating) => client' = client
     /\ Aggregating =>
          /\ \A w \in DOMAIN pool.worker : pool.worker[w].pc = "exit"
          /\ pool.completed = Len(client.batch)
          /\ \A i, j \in DOMAIN client'.toSend :
               i < j => FinishedPos(client'.toSend[i].mid[1])
                          < FinishedPos(client'.toSend[j].mid[1])]_vars

\* C21 amended: nothing is counted or queued for sending while a worker is
\* still running, every message has one result when main aggregates, and the
\* results are aggregated in the order of the batch, whatever the order of
\* completion.
C21_AggregatedInBatchOrder ==
  [][/\ (client.pc = "workers" /\ ~Aggregating) => client' = client
     /\ Aggregating =>
          /\ \A w \in DOMAIN pool.worker : pool.worker[w].pc = "exit"
          /\ pool.completed = Len(client.batch)
          /\ \A i \in DOMAIN pool.results : pool.results[i].status # "empty"
          /\ client'.skipped + client'.failed + Len(client'.toSend) = Len(client.batch)
          /\ \A i \in DOMAIN pool.results :
               pool.results[i].status = "job_related" =>
                 pool.results[i].data.mid[1] = client.batch[i]
          /\ \A i, j \in DOMAIN client'.toSend :
               i < j => BatchPos(client'.toSend[i].mid[1])
                          < BatchPos(client'.toSend[j].mid[1])]_vars

\* the second message of the batch completed first, both are job-related, and
\* main has queued them in the order of the batch
C21_Witness ==
  /\ client.pc = "send" /\ client.kind = "sync"
  /\ pool.finished = <<2, 1>>
  /\ Len(client.toSend) = 2
  /\ client.toSend[1].mid[1] = 1 /\ client.toSend[2].mid[1] = 2

\* C22 (as claimed): under fair scheduling every batch handed to the worker
\* pool is eventually aggregated, whatever the LLM calls do.
C22_BatchEventuallyCompletes ==
  (client.pc = "workers") ~> (client.pc # "workers")

\* the rules, as (label, position) pairs, that message content satisfies
SatisfiedRules(content) ==
  {tr \in (DOMAIN LabelPriority) \X (1..Cardinality(RuleIds)) :
     /\ tr[2] \in DOMAIN RuleTable[tr[1]]
     /\ RuleTable[tr[1]][tr[2]].id \in content.pattern
     /\ RuleTable[tr[1]][tr[2]].conditional =>
          RuleTable[tr[1]][tr[2]].id \in content.condition}

\* tr1 comes before tr2 in the scan: an earlier label, or the same label and
\* an earlier position
ScansBefore(tr1, tr2) ==
  \/ LabelPriority[tr1[1]] < LabelPriority[tr2[1]]
  \/ tr1[1] = tr2[1] /\ tr1[2] <= tr2[2]

\* C24: classifyByRules returns null exactly when the message satisfies no
\* rule, and otherwise the label and the reason of the satisfied rule that
\* comes first in the scan (labels in priority order, rules in declared
\* order), with confidence 0.95; a rule whose pattern matches and whose
\* condition fails neither matches nor ends the scan.
C24_FirstSatisfiedRuleWins ==
  ruleResult.called =>
    LET sat == SatisfiedRules(mail[ruleResult.b]) IN
    /\ ruleResult.type = "none" <=> sat = {}
    /\ sat # {} =>
         \E tr \in sat :
           /\ \A other \in sat : ScansBefore(tr, other)
           /\ ruleResult.type = tr[1]
           /\ ruleResult.reason = RuleTable[tr[1]][tr[2]].id
           /\ ruleResult.confidence = 95

\* message 1 matches the pattern of the conditional rule o1, whose condition
\* fails, and satisfies o2 and i1: the call returned other by o2
C24_Witness ==
  /\ ruleResult.called /\ ruleResult.b = 1
  /\ {"o1", "o2", "i1"} \subseteq mail[1].pattern
  /\ "o1" \notin mail[1].condition
  /\ ruleResult.type = "other" /\ ruleResult.reason = "o2"

\* C27: when the model's answer has no confidence, whatever its type, the
\* message gets the result "skipped", so that it is not sent for staging, and
\* loses tag:new.
C27_OmittedConfidenceIsSkipped ==
  [][\A w \in 1..MaxWorkers, t \in {"interview", "other", ""} :
       ( /\ WorkerFinish(w, FALSE, TypeConf(t, 0), FALSE)
         /\ classifyByRules(client.batch[pool.worker[w].item]).type = "none" )
       => LET item == pool.worker[w].item
              b == client.batch[item]
          IN /\ pool'.results[item].status = "skipped"
             /\ ~tags'[b].new
             /\ store' = store]_vars

\* the model answered interview without a confidence for message 1, which no
\* rule classifies: the run ended with the message tagged and nothing staged
C27_Witness ==
  /\ client.kind = "sync" /\ client.pc = "done"
  /\ classifyByRules(1).type = "none"
  /\ tags[1].cls = "interview" /\ ~tags[1].new
  /\ \A row \in store : row.messageId[1] # 1
  /\ \E i \in DOMAIN pool.results :
       client.batch[i] = 1 /\ pool.results[i].status = "skipped"

\* C26 (as claimed): where the data of the LLM classification and the
\* rule-based extraction both have a value for a field, the extractedData
\* built for staging carries the rule-based value.
C26_RuleBasedValuePreferred ==
  [][\A classificationData \in ExtractedData, ruleExtracted \in ExtractedData :
       MergeForStaging(classificationData, ruleExtracted) =>
         \A k \in ExtractedFields :
           Truthy(classificationData[k]) /\ Truthy(ruleExtracted[k]) =>
             extracted'.result[k] = ruleExtracted[k]]_vars

\* C25 (as claimed): a backfill update sent for a staged messageId sets the
\* extractedData of that StagedImport to the newly extracted values and
\* leaves its classification, status and job link as they were.
C25_BackfillSetsExtractedData ==
  [][\A m \in RaceIds :
       (updateExtractedData(1, m) /\ API_KEY = ClientKey) =>
         \A row \in store :
           row.messageId = m =>
             \E row2 \in store' :
               /\ row2.id = row.id
               /\ row2.extractedData = "backfilled"
               /\ row2.classification = row.classification
               /\ row2.status = row.status
               /\ row2.jobId = row.jobId]_vars

\* the rows staged for the message of id mid, under either spelling
StagedEitherForm(mid) == {row \in store : row.messageId[1] = mid[1]}

\* C30: the lookup of a correction changes no row; when no StagedImport
\* exists for the messageId the entry is counted in notFound and not in
\* updated or errors and no record is created; when one exists under either
\* spelling, the correction finds it whether or not its own id has angle
\* brackets.
C30_UnknownIdCountedNotFound ==
  [][\A cor \in ReviewCorrections, rowId \in 0..MaxIds :
       PatchFind(1, cor, rowId, FALSE) =>
         /\ store' = store
         /\ nextId' = nextId
         /\ StagedEitherForm(cor.mid) = {} =>
              /\ req'[1].notFound = req[1].notFound + 1
              /\ req'[1].updated = req[1].updated
              /\ req'[1].errors = req[1].errors
         /\ StagedEitherForm(cor.mid) # {} =>
              /\ req'[1].pc = "update"
              /\ req'[1].notFound = req[1].notFound
              /\ req'[1].row \in {row.id : row \in StagedEitherForm(cor.mid)}]_vars

\* the first correction of a batch was for an unstaged message and the
\* second has found a row stored under the other spelling of its id
C30_Witness ==
  /\ req[1].kind = "patch"
  /\ req[1].pc = "update"
  /\ req[1].notFound = 1
  /\ req[1].updated = 0
  /\ req[1].errors = <<>>
  /\ \E row \in store :
       /\ row.id = req[1].row
       /\ row.messageId[1] = req[1].cor.mid[1]
       /\ row.messageId[2] # req[1].cor.mid[2]

\* the candidate the scanner visits next
ScanCandidate == client.batch[client.idx + 1]

\* the candidate carries jobsync-corrected and no jobsync-was tag
OriginUndetermined(e) == e.source = "explicit" /\ tags[e.b].was = "none"

\* the original type of the candidate is the type it carries now
OriginEqualsCurrent(e) ==
  \/ e.source = "was-tag" /\ e.originalType = tags[e.b].cls
  \/ e.source = "explicit" /\ tags[e.b].was = tags[e.b].cls

\* C29: a correction candidate whose original type cannot be determined, or
\* whose original type equals its current type, is dropped: the scan step
\* appends nothing to the correction pool, puts nothing on the lists sent to
\* the server, counts no correction and leaves the tags of every message
\* unchanged.
C29_UndeterminedCandidateDropped ==
  [][\A p \in BOOLEAN :
       (ScanOne(p) /\ (OriginUndetermined(ScanCandidate)
                        \/ OriginEqualsCurrent(ScanCandidate))) =>
         /\ tags' = tags
         /\ \E k \in 0..Len(corrections) :
              corrections' = SubSeq(corrections, k + 1, Len(corrections))
         /\ client'.newImportsList = client.newImportsList
         /\ client'.correctionsList = client.correctionsList
         /\ client'.deleteList = client.deleteList
         /\ client'.newCorrections = client.newCorrections]_vars

\* the scanner has passed a message tagged jobsync-corrected without a
\* jobsync-was tag and goes on with the next candidate
C29_Witness ==
  /\ client.pc = "scan"
  /\ client.idx = 1
  /\ client.batch[1].source = "explicit"
  /\ tags[client.batch[1].b].corrected
  /\ tags[client.batch[1].b].was = "none"
  /\ client.newCorrections = 0
  /\ client.newImportsList = <<>> /\ client.correctionsList = <<>>
  /\ client.deleteList = <<>>
  /\ corrections = <<>>

\* the first URL of the text that the filter lets pass, 0 when none
FirstNotExcluded(urls) ==
  LET ok == {i \in DOMAIN urls : ~Filtered(urls[i])}
  IN IF ok = {} THEN 0 ELSE CHOOSE i \in ok : \A j \in ok : i <= j

\* C28 (as claimed): extractApplicationUrl returns the first URL of the body
\* that is not an unsubscribe, tracking, image or mailto link, also when an
\* excluded URL comes before it, and null only when every URL is excluded or
\* there is none.
C28_FirstAllowedUrlReturned ==
  extraction.called =>
    extraction.applicationUrl = FirstNotExcluded(extraction.urls)

\* the body of the claim: "your application for Senior Backend Engineer was
\* successfully submitted to Acme Pty Ltd."
ClaimBody ==
  <<"your", "application", "for", "Senior", "Backend", "Engineer", "was",
    "successfully", "submitted", "to", "Acme", "Pty", "Ltd", ".">>

\* C23 (as claimed): for a message with the body of the claim, whatever its
\* other fields and also without any, extractByRules yields jobTitle "Senior
\* Backend Engineer" and company "Acme".
C23_SeekBodyAloneYieldsCompany ==
  (extraction.called /\ extraction.text = ClaimBody) =>
    /\ extraction.jobTitle = <<"Senior", "Backend", "Engineer">>
    /\ extraction.company = <<"Acme">>

\* C23 (amended): for a message with the body of the claim sent from a SEEK
\* address, extractByRules yields jobTitle "Senior Backend Engineer" and
\* company "Acme"; the jobTitle is the same without the SEEK sender.
C23_SeekMessageYieldsTitleAndCompany ==
  (extraction.called /\ extraction.text = ClaimBody) =>
    /\ extraction.jobTitle = <<"Senior", "Backend", "Engineer">>
    /\ extraction.from = "noreply@seek.com.au" =>
         extraction.source = "SEEK" /\ extraction.company = <<"Acme">>

\* extractByRules has returned for the body of the claim sent by SEEK
C23_Witness ==
  /\ extraction.called
  /\ extraction.text = ClaimBody
  /\ extraction.from = "noreply@seek.com.au"
  /\ extraction.company = <<"Acme">>
  /\ extraction.jobTitle = <<"Senior", "Backend", "Engineer">>

\* C31: outcome counts are conserved. While a batch is being handled every
\* entry visited so far is counted in exactly one category, and in the
\* summary processed + skipped + (number of error strings) is the number of
\* imports, updated + notFound + (number of error strings) the number of
\* corrections.
C31_OutcomeCountsConserved ==
  \A r \in Reqs :
    /\ (req[r].kind \in {"pre", "local"} /\ req[r].pc # "failed") =>
         /\ req[r].processed + req[r].skipped + Len(req[r].errors) = req[r].idx
         /\ req[r].updated = 0 /\ req[r].notFound = 0
         /\ req[r].pc = "done" => req[r].idx = req[r].n
    /\ (req[r].kind = "patch" /\ req[r].pc # "failed") =>
         /\ req[r].updated + req[r].notFound + Len(req[r].errors) = req[r].idx
         /\ req[r].processed = 0 /\ req[r].skipped = 0
         /\ req[r].pc = "done" => req[r].idx = req[r].n

\* the summary of an import batch with one entry in each category
C31_Witness ==
  \E r \in Reqs :
    /\ req[r].kind = "pre"
    /\ req[r].pc = "done"
    /\ req[r].n = MaxBatch
    /\ req[r].errors # <<>>
    /\ req[r].processed + req[r].skipped >= 1

\* message b is in the batch the sync script is about to send
QueuedForSend(b) ==
  /\ client.kind = "sync"
  /\ \E i \in DOMAIN client.toSend : client.toSend[i].mid[1] = b

\* C32 (as claimed): no job-related message is lost. A message that the local
\* sync has classified as job-related with confidence at least 0.6 (it is in
\* toSend) is eventually staged on the server or is selected again by the
\* script's query, also when the POST of the batch fails.
C32_JobRelatedNotLost ==
  \A b \in MsgBases :
    QueuedForSend(b) ~>
      ((\E row \in store : row.messageId[1] = b) \/ ScriptQueryMatches(b))

\* no two entries of the list are for the same message
OncePerMessage(list, Id(_)) ==
  \A i \in DOMAIN list, j \in DOMAIN list : Id(list[i]) = Id(list[j]) => i = j

EntryMessage(e) == e.mid[1]

SelfMessage(e) == e[1]

\* C33 (as claimed): each user correction is recorded at most once. The
\* few-shot pool and each list the scanner forwards to the server (new
\* imports, corrections, deletions) hold at most one entry per message, also
\* for a message that carries both jobsync-corrected and jobsync-was/<type>.
C33_CorrectionRecordedOnce ==
  /\ OncePerMessage(corrections, EntryMessage)
  /\ OncePerMessage(client.newImportsList, EntryMessage)
  /\ OncePerMessage(client.correctionsList, EntryMessage)
  /\ OncePerMessage(client.deleteList, SelfMessage)

\* the workers that have handed an item to the per-message function and are
\* waiting for it
InFlight == {w \in DOMAIN pool.worker : pool.worker[w].pc \in {"await", "hung"}}

FinishedItems == {pool.finished[i] : i \in DOMAIN pool.finished}

C35_OneResultPerItem ==
  [][Aggregating =>
       /\ ResultsLength(pool.results) = Len(client.batch)
       /\ \A i \in DOMAIN pool.results : pool.results[i].status # "empty"
       /\ client'.skipped + client'.failed + Len(client'.toSend)
            = Len(client.batch)]_vars

\* C36 (as claimed): a staged import carries a job link only while its status
\* is approved: after any sequence of approve, link, reject, skip, bulk and
\* restore actions no pending, rejected or skipped row has jobId set.
C36_JobLinkOnlyWhileApproved ==
  \A row \in store : row.jobId # 0 => row.status = "approved"

\* C37 (as claimed): approving one pending import creates exactly one job,
\* also when approveEmailImport is invoked twice at the same time: of the
\* invocations on one import at most one creates a job.
C37_OneJobPerImport ==
  \A c, d \in Callers :
    (/\ calls[c].job # 0
     /\ calls[d].job # 0
     /\ calls[c].importId = calls[d].importId) => c = d

\* an invocation returns a failure message
Refused(c) ==
  /\ calls[c].pc # "done"
  /\ calls'[c].pc = "done"
  /\ calls'[c].result \in {"Import not found", "Import already processed"}

\* C38: approveEmailImport on an import that does not exist or is not pending
\* returns "Import not found" / "Import already processed" and changes
\* nothing; on a pending import the job is created in the same step in which
\* the import becomes approved and linked to that job, never one without the
\* other.
C38_ApproveRefusesOrIsAtomic ==
  [][
      /\ \A c \in Callers : Refused(c) =>
          /\ store' = store /\ nextJob' = nextJob
          /\ \A row \in store : row.id = calls'[c].importId => row.status # "pending"
          /\ (calls'[c].result = "Import not found")
               <=> ~\E row \in store : row.id = calls'[c].importId
      /\ \A c \in Callers : (calls[c].pc = "idle" /\ calls'[c].pc = "checked") =>
          \E row \in store : row.id = calls'[c].importId /\ row.status = "pending"
      /\ nextJob' # nextJob =>
          /\ nextJob' = nextJob + 1
          /\ \E row \in store :
               store' = (store \ {row}) \cup
                          {[row EXCEPT !.status = "approved", !.jobId = nextJob]}
      /\ \A row \in store' :
          (row.jobId # 0 /\ ~\E old \in store : old.jobId = row.jobId) =>
             nextJob' = nextJob + 1 /\ row.jobId = nextJob /\ row.status = "approved"
    ]_vars

\* an invocation on an import that was no longer pending has been refused, and
\* another one has approved a pending import and linked it to the job it created
C38_Witness ==
  \E c, d \in Callers :
    /\ calls[c].result = "Import already processed"
    /\ calls[d].result = "success"
    /\ \E row \in store :
         row.id = calls[d].importId /\ row.status = "approved" /\ row.jobId = calls[d].job

\* C39 (as claimed): every staged import created by the ingestion endpoint is
\* linked to the email account of the monitored address its message belongs
\* to (the sender of an outbound message, the recipient of an inbound one),
\* also when several monitored accounts exist.
C39_ImportLinkedToItsAccount ==
  \A row \in store : row.emailAccountId = accountEmail(row.messageId)

====
